---- MODULE Spec2Model ----
(***************************************************************************)
(* State-machine model of the SpellsBot data-sourcing and caching layer:   *)
(*   spells_bot/search/sourcing/database.py    (Database, the sqlite store)*)
(*   spells_bot/search/sourcing/spellsource.py (SourceUpdater, the scraper)*)
(*   spells_bot/search/sourcing/html2image.py  (HctiApi, table images)     *)
(*   spells_bot/search/spell_search.py         (SpellSearch, the facade)   *)
(*                                                                         *)
(* A table is the set of its rows, a row is a record of its columns.  The  *)
(* columns kept are the ones the operations read or constrain: keys,       *)
(* UNIQUE columns, the book, the name and the class/school references.     *)
(* The other columns are plain payload copied together with book_alias.    *)
(***************************************************************************)
EXTENDS Integers, Sequences, FiniteSets, TLC

VARIABLES
    class_tbl,              \* rows of table "class"               (ClassRecord)
    school_tbl,             \* rows of table "school"              (SchoolRecord)
    short_spell_info_tbl,   \* rows of table "short_spell_info"    (ShortSpellInfoRecord)
    extended_spell_info_tbl,\* rows of table "extended_spell_info", each with its spell_table rows
    chat_settings_tbl,      \* rows of table "chat_settings"       (ChatSettingsRecord)
    files,                  \* image files on disk under spell_tables_dir: <<alias, index>>
    bot_db,                 \* the bot's own database (database/models.py): tables user and
                            \* chat_settings, and saved_spell as the list of its rows by row id
    procs,                  \* per worker: where it stands in a call that spans several steps
    call                    \* the last completed call: its arguments, what it did, its result

vars == <<class_tbl, school_tbl, short_spell_info_tbl, extended_spell_info_tbl,
          chat_settings_tbl, files, bot_db, procs, call>>

(***************************************************************************)
(* Generic helpers                                                         *)
(***************************************************************************)
Range(s) == {s[i] : i \in DOMAIN s}

SetMax(S) == CHOOSE m \in S : \A n \in S : n <= m

SeqsUpTo(S, n) == UNION {[1..k -> S] : k \in 0..n}

NoCall == [op |-> "none"]

\* The workers: threads or processes sharing the store, each running one call
\* at a time.  A worker that is in no call is Idle.
Workers == {1, 2}

Idle == [pc |-> "idle"]

\* The database as one value: the three registry tables.
Registry(c, s, sp) == [class |-> c, school |-> s, spell |-> sp]

EmptyRegistry == Registry({}, {}, {})

(***************************************************************************)
(* datatypes.py: to_orm                                                    *)
(***************************************************************************)
\* ShortSpellInfo.to_orm: d["classes"] = {c.id: c.level for c in self.classes};
\* a later restriction of the same class id overwrites an earlier one.
ClassesToOrm(restrictions) ==
    [c \in {restrictions[i].id : i \in DOMAIN restrictions} |->
        restrictions[SetMax({i \in DOMAIN restrictions : restrictions[i].id = c})].level]

\* to_orm of ClassInfo / SchoolInfo is dict(): every field, the id included.
\* to_orm of ShortSpellInfo carries no id: the row id is the store's.
to_orm(kind, item) ==
    IF kind = "spell"
    THEN [alias |-> item.alias, name |-> item.name, book_alias |-> item.book_alias,
          schools |-> item.schools, classes |-> ClassesToOrm(item.classes)]
    ELSE item

(***************************************************************************)
(* database.py: the tables' constraints and the upsert                     *)
(***************************************************************************)
\* Columns declared primary_key=True or unique=True.
UniqueCols(kind) ==
    CASE kind = "class"  -> {"id", "alias", "name"}
      [] kind = "school" -> {"id"}
      [] kind = "spell"  -> {"id", "alias"}

\* sqlite gives a row inserted without an id the next rowid.
NextRowId(tbl) == IF tbl = {} THEN 1 ELSE SetMax({r.id : r \in tbl}) + 1

NewRow(kind, tbl, vals) ==
    IF kind = "spell" THEN [id |-> NextRowId(tbl)] @@ vals ELSE vals

\* A row that shares the value of a unique column with a row of `others`.
Conflicts(kind, others, row) ==
    \E r \in others : \E c \in UniqueCols(kind) : r[c] = row[c]

\* Mutation of Overwrite: the UPDATE replaces the row by a new one.
Overwrite_as_new_row(row, vals) ==
    [f \in DOMAIN row |-> IF f = "id" THEN row.id + 10
                          ELSE IF f \in DOMAIN vals THEN vals[f] ELSE row[f]]

Overwrite(row, vals) ==
    [f \in DOMAIN row |-> IF f \in DOMAIN vals THEN vals[f] ELSE row[f]]

\* Database._create_or_update_registry_item: try INSERT; on IntegrityError
\* UPDATE ... WHERE key = item.key with every value of the item.  The UPDATE
\* touches the rows the WHERE matches (possibly none) and raises IntegrityError
\* itself when a new value collides with another row.
_create_or_update_registry_item(kind, tbl, item, where) ==
    LET vals    == to_orm(kind, item)
        row     == NewRow(kind, tbl, vals)
        matched == {r \in tbl : r[where] = vals[where]}
        others  == tbl \ matched
        updated == {Overwrite(r, vals) : r \in matched}
    IN  IF ~Conflicts(kind, tbl, row)
        THEN [tbl |-> tbl \cup {row}, err |-> "none"]
        ELSE IF \E u \in updated : Conflicts(kind, others, u)
             THEN [tbl |-> tbl, err |-> "IntegrityError"]
             ELSE [tbl |-> others \cup updated, err |-> "none"]

WhereCol(kind) == IF kind = "spell" THEN "alias" ELSE "id"

\* Mutation of RegistryWrites: the spells are written first.
RegistryWrites_SpellsFirst(payload) ==
    [i \in DOMAIN payload.spells |-> [kind |-> "spell", item |-> payload.spells[i]]]
    \o [i \in DOMAIN payload.classes |-> [kind |-> "class", item |-> payload.classes[i]]]
    \o [i \in DOMAIN payload.schools |-> [kind |-> "school", item |-> payload.schools[i]]]

\* The writes of one create_or_update_registry call, in the order of the code:
\* _create_or_update_classes, _create_or_update_schools, _create_or_update_spells.
RegistryWrites(payload) ==
    [i \in DOMAIN payload.classes |-> [kind |-> "class", item |-> payload.classes[i]]]
    \o [i \in DOMAIN payload.schools |-> [kind |-> "school", item |-> payload.schools[i]]]
    \o [i \in DOMAIN payload.spells |-> [kind |-> "spell", item |-> payload.spells[i]]]

\* The loop over the writes; an exception ends the call, what was committed stays.
RECURSIVE ApplyWrites(_, _, _)
ApplyWrites(db, writes, done) ==
    IF writes = <<>> THEN [db |-> db, err |-> "none", writes |-> done]
    ELSE LET w == Head(writes)
             r == _create_or_update_registry_item(w.kind, db[w.kind], w.item, WhereCol(w.kind))
         IN  IF r.err # "none"
             THEN [db |-> db, err |-> r.err, writes |-> Append(done, w.kind)]
             ELSE ApplyWrites([db EXCEPT ![w.kind] = r.tbl], Tail(writes),
                              Append(done, w.kind))

\* Database.create_or_update_registry
create_or_update_registry(db, payload) ==
    ApplyWrites(db, RegistryWrites(payload), <<>>)

(***************************************************************************)
(* spellsource.py: SourceUpdater                                           *)
(*                                                                         *)
(* The upstream spell-list page as the client sees it:                     *)
(*   raw.classes  the "classes" js block: records [Id, Name]               *)
(*   raw.extra    the class-list pages: class name -> [alias, book_alias]  *)
(*   raw.schools  the "schools" js block: records [Id, Name]               *)
(*   raw.spells   the "spells" js block: records [Alias, Name, BookAlias,  *)
(*                ClassSpell, SchoolIds], ClassSpell a list of             *)
(*                [ClassId, Level] and SchoolIds a list of ids             *)
(***************************************************************************)
\* SourceUpdater._extract_schools_from_js
_extract_schools_from_js(raw_schools) ==
    [i \in DOMAIN raw_schools |-> [id |-> raw_schools[i].Id, name |-> raw_schools[i].Name]]

\* SourceUpdater._extract_classes_from_js_and_extra_data: the js record updated
\* with the extra data found under the class's display name; ClassInfo's
\* defaults (alias "", book_alias "") where there is none.
_extract_classes_from_js_and_extra_data(raw_classes, extra) ==
    [i \in DOMAIN raw_classes |->
        LET c == raw_classes[i]
        IN  IF c.Name \in DOMAIN extra
            THEN [id |-> c.Id, alias |-> extra[c.Name].alias, name |-> c.Name,
                  book_alias |-> extra[c.Name].book_alias]
            ELSE [id |-> c.Id, alias |-> "", name |-> c.Name, book_alias |-> ""]]

\* id2class[restriction["ClassId"]] and id2school[idx] raise KeyError for an id
\* that is not among the classes / schools passed in.
Unresolved(spell, classes, schools) ==
    \/ \E i \in DOMAIN spell.ClassSpell :
          spell.ClassSpell[i].ClassId \notin {c.id : c \in Range(classes)}
    \/ \E i \in DOMAIN spell.SchoolIds :
          spell.SchoolIds[i] \notin {s.id : s \in Range(schools)}

RenamedSpells(raw_spells) ==
    [i \in DOMAIN raw_spells |->
        [alias |-> raw_spells[i].Alias, name |-> raw_spells[i].Name,
         book_alias |-> raw_spells[i].BookAlias,
         classes |-> [j \in DOMAIN raw_spells[i].ClassSpell |->
                        [id |-> raw_spells[i].ClassSpell[j].ClassId,
                         level |-> raw_spells[i].ClassSpell[j].Level]],
         schools |-> raw_spells[i].SchoolIds]]

\* Mutation of _extract_spells_from_js: ids are copied without being looked up.
_extract_spells_from_js_unchecked(raw_spells, classes, schools) ==
    [err |-> "none", spells |-> RenamedSpells(raw_spells)]

\* SourceUpdater._extract_spells_from_js
_extract_spells_from_js(raw_spells, classes, schools) ==
    IF \E i \in DOMAIN raw_spells : Unresolved(raw_spells[i], classes, schools)
    THEN [err |-> "KeyError", spells |-> <<>>]
    ELSE [err |-> "none", spells |-> RenamedSpells(raw_spells)]

\* The order in which update_registry extracts the three blocks.
ExtractionOrder == <<"schools", "classes", "spells">>

NothingExtracted ==
    [classes |-> <<>>, schools |-> <<>>, spells |-> <<>>, err |-> "none", extracted |-> <<>>]

\* One extraction step on top of what the earlier steps produced.
ExtractStep(raw, what, got) ==
    CASE what = "schools" ->
            [got EXCEPT !.schools = _extract_schools_from_js(raw.schools),
                        !.extracted = Append(@, what)]
      [] what = "classes" ->
            [got EXCEPT !.classes = _extract_classes_from_js_and_extra_data(raw.classes, raw.extra),
                        !.extracted = Append(@, what)]
      [] what = "spells" ->
            LET r == _extract_spells_from_js(raw.spells, got.classes, got.schools)
            IN  [got EXCEPT !.spells = r.spells, !.err = r.err,
                            !.extracted = Append(@, what)]

RECURSIVE ExtractAll(_, _, _)
ExtractAll(raw, order, got) ==
    IF order = <<>> \/ got.err # "none" THEN got
    ELSE ExtractAll(raw, Tail(order), ExtractStep(raw, Head(order), got))

\* SourceUpdater.update_registry
update_registry(raw) == ExtractAll(raw, ExtractionOrder, NothingExtracted)

PayloadOf(got) == [spells |-> got.spells, classes |-> got.classes, schools |-> got.schools]

(***************************************************************************)
(* The registry operations as actions                                      *)
(***************************************************************************)
db == Registry(class_tbl, school_tbl, short_spell_info_tbl)

SetRegistry(new) ==
    /\ class_tbl' = new.class
    /\ school_tbl' = new.school
    /\ short_spell_info_tbl' = new.spell

\* SpellSearch.update_sources: fetch, then upsert.  A failed fetch raises before
\* the store is called.
UpdateSources(raw) ==
    LET got == update_registry(raw)
        r   == create_or_update_registry(db, PayloadOf(got))
    IN  /\ IF got.err # "none"
           THEN /\ UNCHANGED <<bot_db, class_tbl, school_tbl, short_spell_info_tbl>>
                /\ call' = [op |-> "update_sources", raw |-> raw, payload |-> PayloadOf(got),
                            err |-> got.err, extracted |-> got.extracted, writes |-> <<>>]
           ELSE /\ SetRegistry(r.db)
                /\ call' = [op |-> "update_sources", raw |-> raw, payload |-> PayloadOf(got),
                            err |-> r.err, extracted |-> got.extracted, writes |-> r.writes]
        /\ UNCHANGED <<bot_db, extended_spell_info_tbl, chat_settings_tbl, files, procs>>

\* Database.create_or_update_registry called with a payload of the caller's.
CreateOrUpdateRegistry(payload) ==
    LET r == create_or_update_registry(db, payload)
    IN  /\ SetRegistry(r.db)
        /\ call' = [op |-> "create_or_update_registry", payload |-> payload,
                    err |-> r.err, writes |-> r.writes]
        /\ UNCHANGED <<bot_db, extended_spell_info_tbl, chat_settings_tbl, files, procs>>

\* A fresh database (init_db: create_all on an empty file), nothing on disk.
Init ==
    /\ class_tbl = {}
    /\ school_tbl = {}
    /\ short_spell_info_tbl = {}
    /\ extended_spell_info_tbl = {}
    /\ chat_settings_tbl = {}
    /\ files = {}
    /\ bot_db = [user |-> {}, chat_settings |-> {}, saved_spell |-> <<>>]
    /\ procs = [w \in Workers |-> Idle]
    /\ call = NoCall

(***************************************************************************)
(* Registry refresh: the inputs                                            *)
(***************************************************************************)
ClassIds == {1, 2}

ClassNameOf(id) == CASE id = 1 -> "Wizard" [] id = 2 -> "Priest" [] OTHER -> "Bard"

ClassAliasOf(name) ==
    CASE name = "Wizard" -> "wizard" [] name = "Priest" -> "priest" [] OTHER -> "bard"

\* The elements of a set of integers in ascending order.
RECURSIVE Ascending(_)
Ascending(S) ==
    IF S = {} THEN <<>>
    ELSE LET m == SetMax(S) IN Append(Ascending(S \ {m}), m)

\* The js class block lists some of the upstream classes, in id order.
ClassListings ==
    {[i \in DOMAIN Ascending(ids) |->
        [Id |-> Ascending(ids)[i], Name |-> ClassNameOf(Ascending(ids)[i])]] :
        ids \in SUBSET ClassIds}

\* Extra data exists for some of the listed classes.
ExtrasFor(listing) ==
    {[n \in names |-> [alias |-> ClassAliasOf(n), book_alias |-> "coreRulebook"]] :
        names \in SUBSET {c.Name : c \in Range(listing)}}

RawSchoolLists ==
    {<<>>, <<[Id |-> 1, Name |-> "Evocation"]>>, <<[Id |-> 1, Name |-> "Necromancy"]>>}

RawRestrictionLists ==
    {<<>>} \cup {<<[ClassId |-> c, Level |-> 3]>> : c \in ClassIds}

RawSpellLists ==
    {<<>>} \cup
    {<<[Alias |-> "fireball", Name |-> "Fireball", BookAlias |-> "coreRulebook",
        ClassSpell |-> cs, SchoolIds |-> ss]>> :
        cs \in RawRestrictionLists, ss \in {<<1>>}}

RegistryRaws ==
    UNION {{[classes |-> l, extra |-> e, schools |-> s, spells |-> sp] :
                e \in ExtrasFor(l), s \in RawSchoolLists, sp \in RawSpellLists} :
            l \in ClassListings}

\* Payloads a caller of Database.create_or_update_registry builds itself: a spell
\* of class 1, with and without that class in the payload.
WizardInfo == [id |-> 1, alias |-> "wizard", name |-> "Wizard", book_alias |-> "coreRulebook"]

DirectPayloads ==
    {[classes |-> cl, schools |-> <<>>,
      spells |-> <<[alias |-> "fireball", name |-> "Fireball", book_alias |-> "coreRulebook",
                    classes |-> <<[id |-> 1, level |-> 3]>>, schools |-> <<>>]>>] :
        cl \in {<<>>, <<WizardInfo>>}}

NextRegistry ==
    \/ \E raw \in RegistryRaws : UpdateSources(raw)
    \/ \E payload \in DirectPayloads : CreateOrUpdateRegistry(payload)

SpecRegistry == Init /\ [][NextRegistry]_vars

(***************************************************************************)
(* Registry refresh: the claims                                            *)
(***************************************************************************)
RegistryOps == {"update_sources", "create_or_update_registry"}

\* The last call was a registry upsert that returned.
UpsertReturned ==
    /\ call.op \in RegistryOps
    /\ call.err = "none"

\* A spell of the payload names a class or a school the payload does not hold.
DanglingIn(payload, spell) ==
    \/ \E i \in DOMAIN spell.classes :
          spell.classes[i].id \notin {c.id : c \in Range(payload.classes)}
    \/ \E i \in DOMAIN spell.schools :
          spell.schools[i] \notin {x.id : x \in Range(payload.schools)}

PayloadDangling(payload) == \E s \in Range(payload.spells) : DanglingIn(payload, s)

RawDangling(raw) ==
    \E s \in Range(raw.spells) :
        \/ \E i \in DOMAIN s.ClassSpell :
              s.ClassSpell[i].ClassId \notin {c.Id : c \in Range(raw.classes)}
        \/ \E i \in DOMAIN s.SchoolIds :
              s.SchoolIds[i] \notin {x.Id : x \in Range(raw.schools)}

\* The stored row of a payload spell, but for the row id.
SpellRowHolds(row, item) ==
    /\ row.alias = item.alias
    /\ row.name = item.name
    /\ row.book_alias = item.book_alias
    /\ row.schools = item.schools
    /\ DOMAIN row.classes = {item.classes[i].id : i \in DOMAIN item.classes}
    /\ \A i \in DOMAIN item.classes : row.classes[item.classes[i].id] = item.classes[i].level

\* C1: a second create_or_update_registry call with the payload of the call
\* before it (both returning) leaves the class, school and spell rows as the
\* first call left them.
C1_SecondUpsertChangesNothing ==
    [][(/\ UpsertReturned
        /\ call'.op \in RegistryOps
        /\ call'.err = "none"
        /\ call'.payload = call.payload)
       => UNCHANGED <<class_tbl, school_tbl, short_spell_info_tbl>>]_vars

\* C2: after create_or_update_registry returns, every class, school and spell
\* of the payload has exactly one row under its identity key, and that row
\* holds the payload's values.
C2_PayloadIsStored ==
    UpsertReturned =>
        /\ \A c \in Range(call.payload.classes) :
              /\ Cardinality({r \in class_tbl : r.id = c.id}) = 1
              /\ c \in class_tbl
        /\ \A x \in Range(call.payload.schools) :
              /\ Cardinality({r \in school_tbl : r.id = x.id}) = 1
              /\ x \in school_tbl
        /\ \A sp \in Range(call.payload.spells) :
              /\ Cardinality({r \in short_spell_info_tbl : r.alias = sp.alias}) = 1
              /\ \E r \in short_spell_info_tbl : SpellRowHolds(r, sp)

\* Every class id and school id of the stored spell rows has a row.
RowResolves(row) ==
    /\ \A c \in DOMAIN row.classes : \E r \in class_tbl : r.id = c
    /\ \A i \in DOMAIN row.schools : \E r \in school_tbl : r.id = row.schools[i]

\* C3: once an upsert of a payload whose spells reference only classes and
\* schools of that payload has returned, every class id and school id stored
\* in a spell row resolves to a stored row.
C3_StoredReferencesResolve ==
    (UpsertReturned /\ ~PayloadDangling(call.payload)) =>
        \A row \in short_spell_info_tbl : RowResolves(row)

\* C4: within one refresh no class or school write follows a spell write, and
\* the client has extracted schools and classes when it extracts the spells.
C4_ClassesAndSchoolsBeforeSpells ==
    call.op \in RegistryOps =>
        /\ \A i, j \in DOMAIN call.writes :
              (i < j /\ call.writes[i] = "spell") => call.writes[j] = "spell"
        /\ call.op = "update_sources" =>
              \A j \in DOMAIN call.extracted :
                  call.extracted[j] = "spells" =>
                      /\ \E i \in 1..(j - 1) : call.extracted[i] = "classes"
                      /\ \E i \in 1..(j - 1) : call.extracted[i] = "schools"

C4_Witness ==
    /\ call.op = "update_sources"
    /\ call.err = "none"
    /\ {"class", "school", "spell"} \subseteq Range(call.writes)
    /\ "spells" \in Range(call.extracted)

\* C5 as stated: create_or_update_registry called with a payload in which a
\* spell references a class or school the payload lacks fails and stores
\* nothing for that spell.
C5_UpsertRejectsDangling ==
    (call.op = "create_or_update_registry" /\ PayloadDangling(call.payload)) =>
        /\ call.err # "none"
        /\ \A sp \in Range(call.payload.spells) :
              DanglingIn(call.payload, sp) =>
                  ~ \E r \in short_spell_info_tbl : SpellRowHolds(r, sp)

\* C5 amended: it is the fetch that fails.  When the upstream data has a spell
\* referencing a class or school id the same data lacks, update_registry raises
\* KeyError, update_sources makes no write and every table is as it was.
C5_FetchRejectsDangling ==
    [][(call'.op = "update_sources" /\ RawDangling(call'.raw))
       => /\ call'.err = "KeyError"
          /\ call'.writes = <<>>
          /\ UNCHANGED <<class_tbl, school_tbl, short_spell_info_tbl>>]_vars

C5_Witness ==
    /\ call.op = "update_sources"
    /\ RawDangling(call.raw)
    /\ call.err = "KeyError"
    /\ class_tbl # {}
    /\ short_spell_info_tbl # {}

(***************************************************************************)
(* database.py: chat settings and the book filter                          *)
(***************************************************************************)
\* Database._iter_rulebooks: SELECT DISTINCT book_alias FROM short_spell_info
_iter_rulebooks(spell_tbl) == {r.book_alias : r \in spell_tbl}

\* Mutation of HardcodedBooks: only the core rulebook is switched on.
HardcodedBooks_CoreOnly == {"coreRulebook"}

HardcodedBooks == {"coreRulebook", "advancedPlayerGuide"}

\* _default_book_filter: every known book False, then the two hardcoded ones True.
_default_book_filter(book_alias_list) ==
    [b \in book_alias_list \cup HardcodedBooks |-> b \in HardcodedBooks]

\* Database._get_chat_settings: the rows of the chat (first() takes one).
_get_chat_settings(settings_tbl, chat_id) == {r \in settings_tbl : r.chat_id = chat_id}

\* Database._create_chat_settings with no book_filter argument.
_create_chat_settings(spell_tbl, chat_id) ==
    [chat_id |-> chat_id, book_filter |-> _default_book_filter(_iter_rulebooks(spell_tbl))]

\* Mutation of _get_or_create_chat_settings: the default filter is rebuilt and
\* stored on every call.
_get_or_create_chat_settings_rebuild(settings_tbl, spell_tbl, chat_id) ==
    [tbl |-> {r \in settings_tbl : r.chat_id # chat_id}
                \cup {_create_chat_settings(spell_tbl, chat_id)},
     row |-> _create_chat_settings(spell_tbl, chat_id)]

\* Database._get_or_create_chat_settings: the table afterwards and the chat's row.
_get_or_create_chat_settings(settings_tbl, spell_tbl, chat_id) ==
    IF _get_chat_settings(settings_tbl, chat_id) # {}
    THEN [tbl |-> settings_tbl,
          row |-> CHOOSE r \in _get_chat_settings(settings_tbl, chat_id) : TRUE]
    ELSE [tbl |-> settings_tbl \cup {_create_chat_settings(spell_tbl, chat_id)},
          row |-> _create_chat_settings(spell_tbl, chat_id)]

\* "No chat": None; `if chat_id:` takes 0 the same way.
NoChat == 0

\* Database._get_book_filter: the books to include, and the settings table
\* after the lazy creation of the chat's row.
_get_book_filter(settings_tbl, spell_tbl, chat_id) ==
    IF chat_id # NoChat
    THEN LET got == _get_or_create_chat_settings(settings_tbl, spell_tbl, chat_id)
         IN  [tbl |-> got.tbl,
              include_books |-> {b \in DOMAIN got.row.book_filter : got.row.book_filter[b]}]
    ELSE [tbl |-> settings_tbl, include_books |-> _iter_rulebooks(spell_tbl)]

\* Mutation of update_book_filter: the UPDATE has no WHERE clause.
update_book_filter_all_chats(settings_tbl, spell_tbl, chat_id, book_alias) ==
    LET got == _get_or_create_chat_settings(settings_tbl, spell_tbl, chat_id)
        new == [got.row EXCEPT !.book_filter[book_alias] = ~@]
    IN  IF book_alias \notin DOMAIN got.row.book_filter
        THEN [tbl |-> got.tbl, err |-> "KeyError", row |-> got.row, before |-> got.row.book_filter]
        ELSE [tbl |-> {[r EXCEPT !.book_filter = new.book_filter] : r \in got.tbl},
              err |-> "none", row |-> new, before |-> got.row.book_filter]

\* Mutation of update_book_filter: the entry is switched on instead of flipped.
update_book_filter_switch_on(settings_tbl, spell_tbl, chat_id, book_alias) ==
    LET got == _get_or_create_chat_settings(settings_tbl, spell_tbl, chat_id)
        new == [got.row EXCEPT !.book_filter[book_alias] = TRUE]
    IN  IF book_alias \notin DOMAIN got.row.book_filter
        THEN [tbl |-> got.tbl, err |-> "KeyError", row |-> got.row, before |-> got.row.book_filter]
        ELSE [tbl |-> {IF r.chat_id = chat_id THEN new ELSE r : r \in got.tbl},
              err |-> "none", row |-> new, before |-> got.row.book_filter]

\* Database.update_book_filter: new_book_filter[book_alias] raises KeyError for
\* a book the mapping has no entry for (the row is created by then).  before is
\* the chat's filter as read at the start of the call.
update_book_filter(settings_tbl, spell_tbl, chat_id, book_alias) ==
    LET got == _get_or_create_chat_settings(settings_tbl, spell_tbl, chat_id)
        new == [got.row EXCEPT !.book_filter[book_alias] = ~@]
    IN  IF book_alias \notin DOMAIN got.row.book_filter
        THEN [tbl |-> got.tbl, err |-> "KeyError", row |-> got.row, before |-> got.row.book_filter]
        ELSE [tbl |-> {IF r.chat_id = chat_id THEN new ELSE r : r \in got.tbl},
              err |-> "none", row |-> new, before |-> got.row.book_filter]

\* Database.get_or_create_chat_settings: the table afterwards and the
\* ChatSettings returned.
get_or_create_chat_settings(settings_tbl, spell_tbl, chat_id) ==
    LET got == _get_or_create_chat_settings(settings_tbl, spell_tbl, chat_id)
    IN  [tbl |-> got.tbl, result |-> got.row]

(***************************************************************************)
(* Names: a name is a tuple of characters.  sqlite orders text by code     *)
(* point (BINARY collation), str.lower() maps a capital to its small       *)
(* letter.                                                                 *)
(***************************************************************************)
Code(ch) == CASE ch = "A" -> 65 [] ch = "B" -> 66 [] ch = "a" -> 97 [] ch = "b" -> 98

LowerChar(ch) == CASE ch = "A" -> "a" [] ch = "B" -> "b" [] OTHER -> ch

\* str.lower()
lower(name) == [i \in DOMAIN name |-> LowerChar(name[i])]

\* Python's `q in s` for strings.
Contains(q, text) ==
    \E i \in 0..(Len(text) - Len(q)) : SubSeq(text, i + 1, i + Len(q)) = q

\* a < b in code-point order.
NameLess(a, b) ==
    \E k \in 1..(Len(a) + 1) :
        /\ k <= Len(b)
        /\ \A i \in 1..(k - 1) : a[i] = b[i]
        /\ k <= Len(a) => Code(a[k]) < Code(b[k])

\* ORDER BY name ASC; rows of equal name come in rowid order (the scan order).
RowBefore(r1, r2) ==
    \/ NameLess(r1.name, r2.name)
    \/ r1.name = r2.name /\ r1.id < r2.id

RECURSIVE OrderByName(_)
OrderByName(rows) ==
    IF rows = {} THEN <<>>
    ELSE LET first == CHOOSE r \in rows : \A o \in rows \ {r} : RowBefore(r, o)
         IN  <<first>> \o OrderByName(rows \ {first})

(***************************************************************************)
(* database.py: the searches                                               *)
(***************************************************************************)
\* One row as a ShortSpellInfo: id2school[s] and id2class[int(c)] raise KeyError
\* for an id without a row.
RowConverts(cdb, row) ==
    /\ \A i \in DOMAIN row.schools : \E x \in cdb.school : x.id = row.schools[i]
    /\ \A c \in DOMAIN row.classes : \E x \in cdb.class : x.id = c

ConvertedRow(cdb, row) ==
    [alias |-> row.alias, name |-> row.name, book_alias |-> row.book_alias,
     schools |-> [i \in DOMAIN row.schools |->
                    CHOOSE x \in cdb.school : x.id = row.schools[i]],
     classes |-> [c \in DOMAIN row.classes |->
                    [info |-> CHOOSE x \in cdb.class : x.id = c, level |-> row.classes[c]]]]

\* Database._convert_short_spell_info_rows, a generator: the items it yields
\* before it ends or raises.
RECURSIVE _convert_short_spell_info_rows(_, _)
_convert_short_spell_info_rows(cdb, rows) ==
    IF rows = <<>> THEN [err |-> "none", items |-> <<>>]
    ELSE IF ~RowConverts(cdb, Head(rows)) THEN [err |-> "KeyError", items |-> <<>>]
    ELSE LET rest == _convert_short_spell_info_rows(cdb, Tail(rows))
         IN  [err |-> rest.err, items |-> <<ConvertedRow(cdb, Head(rows))>> \o rest.items]

\* Database.iter_short_spell_info_by_name, consumed to its end.
iter_short_spell_info_by_name(cdb, settings_tbl, name, chat_id) ==
    LET filter == _get_book_filter(settings_tbl, cdb.spell, chat_id)
        rows   == OrderByName({r \in cdb.spell : r.book_alias \in filter.include_books})
        conv   == _convert_short_spell_info_rows(cdb, rows)
    IN  [tbl |-> filter.tbl, err |-> conv.err,
         found |-> SelectSeq(conv.items, LAMBDA it : Contains(name, lower(it.name)))]

\* Database.iter_short_spell_info_by_class_level, consumed to its end.
iter_short_spell_info_by_class_level(cdb, settings_tbl, class_id, spell_level, chat_id) ==
    LET filter == _get_book_filter(settings_tbl, cdb.spell, chat_id)
        rows   == OrderByName({r \in cdb.spell :
                                 /\ class_id \in DOMAIN r.classes
                                 /\ r.classes[class_id] = spell_level
                                 /\ r.book_alias \in filter.include_books})
        conv   == _convert_short_spell_info_rows(cdb, rows)
    IN  [tbl |-> filter.tbl, err |-> conv.err, found |-> conv.items]

(***************************************************************************)
(* spell_search.py: short_info and paginate_short_info_by_level            *)
(***************************************************************************)
\* Python's s[start:stop] on a list, indices 0-based, negative ones from the end.
PyIndex(len, i) == IF i < 0 THEN (IF len + i < 0 THEN 0 ELSE len + i)
                   ELSE IF i > len THEN len ELSE i

PySlice(list, start, stop) ==
    SubSeq(list, PyIndex(Len(list), start) + 1, PyIndex(Len(list), stop))

\* short_info's default top_n
DefaultTopN == 10

\* SpellSearch.short_info
short_info(cdb, settings_tbl, query, chat_id, top_n) ==
    LET it == iter_short_spell_info_by_name(cdb, settings_tbl, query, chat_id)
    IN  [tbl |-> it.tbl, err |-> it.err,
         result |-> IF it.err = "none" THEN PySlice(it.found, 0, top_n) ELSE <<>>]

\* math.ceil(a / n) for a >= 0, n >= 1
CeilDiv(a, n) == IF a % n = 0 THEN a \div n ELSE (a \div n) + 1

\* Mutation of paginate_short_info_by_level: the page count is rounded down.
paginate_short_info_by_level_floor(cdb, settings_tbl, class_id, level, chat_id, page, n_per_page) ==
    LET it == iter_short_spell_info_by_class_level(cdb, settings_tbl, class_id, level, chat_id)
    IN  IF it.err # "none"
        THEN [tbl |-> it.tbl, err |-> it.err, n_pages_total |-> 0, result |-> <<>>]
        ELSE [tbl |-> it.tbl, err |-> "none",
              n_pages_total |-> Len(it.found) \div n_per_page,
              result |-> PySlice(it.found, n_per_page * page, n_per_page * (page + 1))]

\* SpellSearch.paginate_short_info_by_level
paginate_short_info_by_level(cdb, settings_tbl, class_id, level, chat_id, page, n_per_page) ==
    LET it == iter_short_spell_info_by_class_level(cdb, settings_tbl, class_id, level, chat_id)
    IN  IF it.err # "none"
        THEN [tbl |-> it.tbl, err |-> it.err, n_pages_total |-> 0, result |-> <<>>]
        ELSE [tbl |-> it.tbl, err |-> "none",
              n_pages_total |-> CeilDiv(Len(it.found), n_per_page),
              result |-> PySlice(it.found, n_per_page * page, n_per_page * (page + 1))]

(***************************************************************************)
(* Searching: the actions                                                  *)
(***************************************************************************)
\* SpellSearch.update_chat_settings -> Database.update_book_filter
UpdateBookFilter(chat_id, book_alias) ==
    LET r == update_book_filter(chat_settings_tbl, short_spell_info_tbl, chat_id, book_alias)
    IN  /\ chat_settings_tbl' = r.tbl
        /\ call' = [op |-> "update_book_filter", chat_id |-> chat_id,
                    book_alias |-> book_alias, err |-> r.err,
                    before |-> r.before, result |-> r.row.book_filter]
        /\ UNCHANGED <<bot_db, class_tbl, school_tbl, short_spell_info_tbl,
                       extended_spell_info_tbl, files, procs>>

\* SpellSearch.short_info(query, chat_id)
ShortInfo(query, chat_id) ==
    LET r == short_info(db, chat_settings_tbl, query, chat_id, DefaultTopN)
    IN  /\ chat_settings_tbl' = r.tbl
        /\ call' = [op |-> "short_info", query |-> query, chat_id |-> chat_id,
                    err |-> r.err, result |-> r.result]
        /\ UNCHANGED <<bot_db, class_tbl, school_tbl, short_spell_info_tbl,
                       extended_spell_info_tbl, files, procs>>

\* list(Database.iter_short_spell_info_by_class_level(class_id, spell_level, chat_id))
IterByClassLevel(class_id, spell_level, chat_id) ==
    LET r == iter_short_spell_info_by_class_level(db, chat_settings_tbl,
                                                  class_id, spell_level, chat_id)
    IN  /\ chat_settings_tbl' = r.tbl
        /\ call' = [op |-> "iter_short_spell_info_by_class_level", class_id |-> class_id,
                    spell_level |-> spell_level, chat_id |-> chat_id,
                    err |-> r.err, result |-> IF r.err = "none" THEN r.found ELSE <<>>]
        /\ UNCHANGED <<bot_db, class_tbl, school_tbl, short_spell_info_tbl,
                       extended_spell_info_tbl, files, procs>>

\* SpellSearch.paginate_short_info_by_level(class_id, level, chat_id, page, n_per_page)
Paginate(class_id, level, chat_id, page, n_per_page) ==
    LET r == paginate_short_info_by_level(db, chat_settings_tbl, class_id, level,
                                          chat_id, page, n_per_page)
    IN  /\ chat_settings_tbl' = r.tbl
        /\ call' = [op |-> "paginate_short_info_by_level", class_id |-> class_id,
                    level |-> level, chat_id |-> chat_id, page |-> page,
                    n_per_page |-> n_per_page, err |-> r.err,
                    n_pages_total |-> r.n_pages_total, result |-> r.result]
        /\ UNCHANGED <<bot_db, class_tbl, school_tbl, short_spell_info_tbl,
                       extended_spell_info_tbl, files, procs>>

(***************************************************************************)
(* Searching: the inputs.  Upstream publishes four spells of two classes   *)
(* and two books; a refresh sees the first k of them, and the class pages  *)
(* either carry both classes or neither.                                   *)
(***************************************************************************)
UpstreamClasses == <<[Id |-> 1, Name |-> "Wizard"], [Id |-> 2, Name |-> "Priest"]>>

UpstreamSchools == <<[Id |-> 1, Name |-> "Evocation"]>>

UpstreamSpells ==
    << [Alias |-> "fireball", Name |-> <<"B", "a">>, BookAlias |-> "coreRulebook",
        ClassSpell |-> <<[ClassId |-> 1, Level |-> 3]>>, SchoolIds |-> <<1>>],
       [Alias |-> "slow", Name |-> <<"A", "b">>, BookAlias |-> "ultimateMagic",
        ClassSpell |-> <<[ClassId |-> 1, Level |-> 3], [ClassId |-> 2, Level |-> 2]>>,
        SchoolIds |-> <<1>>],
       [Alias |-> "haste", Name |-> <<"a", "a">>, BookAlias |-> "coreRulebook",
        ClassSpell |-> <<[ClassId |-> 1, Level |-> 3]>>, SchoolIds |-> <<>>],
       [Alias |-> "bless", Name |-> <<"a", "b">>, BookAlias |-> "coreRulebook",
        ClassSpell |-> <<[ClassId |-> 2, Level |-> 1], [ClassId |-> 1, Level |-> 1]>>,
        SchoolIds |-> <<1>>] >>

SearchRaws ==
    {[classes |-> UpstreamClasses, extra |-> e, schools |-> UpstreamSchools,
      spells |-> SubSeq(UpstreamSpells, 1, k)] :
        e \in {<<>>, CHOOSE all \in ExtrasFor(UpstreamClasses) :
                        DOMAIN all = {"Wizard", "Priest"}},
        k \in 0..Len(UpstreamSpells)}

SearchChats == {NoChat, 1}

ToggledBooks == {"coreRulebook", "ultimateMagic"}

Queries == {<<>>, <<"b">>, <<"a", "b">>}

SearchLevels == {1, 3}

NextSearch ==
    \/ \E raw \in SearchRaws : UpdateSources(raw)
    \/ \E b \in ToggledBooks : UpdateBookFilter(1, b)
    \/ \E q \in Queries, chat \in SearchChats : ShortInfo(q, chat)
    \/ \E c \in ClassIds, l \in SearchLevels, chat \in SearchChats : IterByClassLevel(c, l, chat)

SpecSearch == Init /\ [][NextSearch]_vars

MaxPage == 3

MaxPerPage == 2

\* Page arguments: the pages of the result, one past them, and negative ones.
PageArgs == (-2)..MaxPage

NextPages ==
    \/ \E raw \in SearchRaws : UpdateSources(raw)
    \/ \E b \in ToggledBooks : UpdateBookFilter(1, b)
    \/ \E c \in ClassIds, chat \in SearchChats, page \in PageArgs, n \in 1..MaxPerPage :
          Paginate(c, 3, chat, page, n)

SpecPages == Init /\ [][NextPages]_vars

(***************************************************************************)
(* Searching: the claims                                                   *)
(***************************************************************************)
\* The book is enabled for the chat: True in the chat's stored filter; with no
\* chat every book is.
Enabled(chat_id, book) ==
    \/ chat_id = NoChat
    \/ \E row \in chat_settings_tbl :
          /\ row.chat_id = chat_id
          /\ book \in DOMAIN row.book_filter
          /\ row.book_filter[book]

Aliases(items) == {items[i].alias : i \in DOMAIN items}

\* The items are pairwise distinct spells in ascending (code point) name order.
AscendingByName(items) ==
    /\ \A i, j \in DOMAIN items : i < j => items[i].alias # items[j].alias
    /\ \A i, j \in DOMAIN items : i < j => ~NameLess(items[j].name, items[i].name)

\* C6: the name search yields exactly the stored spells of the chat's enabled
\* books whose lowercased name contains the query, each once, in ascending
\* name order (all of them for the empty query).
C6_NameSearchIsExact ==
    call.op = "short_info" =>
        /\ call.err = "none"
        /\ Aliases(call.result) =
              {r.alias : r \in {x \in short_spell_info_tbl :
                                   /\ Enabled(call.chat_id, x.book_alias)
                                   /\ Contains(call.query, lower(x.name))}}
        /\ AscendingByName(call.result)

\* C7: the class/level search yields exactly the stored spells of the chat's
\* enabled books that map the class to exactly that level, in ascending name
\* order.
C7_ClassLevelSearchIsExact ==
    call.op = "iter_short_spell_info_by_class_level" =>
        /\ call.err = "none"
        /\ Aliases(call.result) =
              {r.alias : r \in {x \in short_spell_info_tbl :
                                   /\ Enabled(call.chat_id, x.book_alias)
                                   /\ call.class_id \in DOMAIN x.classes
                                   /\ x.classes[call.class_id] = call.spell_level}}
        /\ AscendingByName(call.result)

PaginateReturned ==
    /\ call.op = "paginate_short_info_by_level"
    /\ call.err = "none"

\* The full ordered result set the last paginate call sliced.
AllSpellsOfCall ==
    iter_short_spell_info_by_class_level(db, chat_settings_tbl, call.class_id,
                                         call.level, call.chat_id).found

\* What paginate returns for page p with the arguments of the last call.
PageOfCall(p) ==
    paginate_short_info_by_level(db, chat_settings_tbl, call.class_id, call.level,
                                 call.chat_id, p, call.n_per_page).result

RECURSIVE PagesUpTo(_)
PagesUpTo(n) == IF n = 0 THEN <<>> ELSE PagesUpTo(n - 1) \o PageOfCall(n - 1)

\* C8: for a result set of N spells and page size P the call reports ceil(N/P)
\* pages, pages 0..ceil(N/P)-1 concatenated are the result set (no gap, no
\* duplicate), and page ceil(N/P) is empty.
C8_PagesCoverResult ==
    PaginateReturned =>
        LET N == Len(AllSpellsOfCall)
            P == call.n_per_page
            n == call.n_pages_total
        IN  /\ n * P >= N
            /\ (n - 1) * P < N
            /\ PagesUpTo(n) = AllSpellsOfCall
            /\ \A i, j \in 1..N : i # j => AllSpellsOfCall[i].alias # AllSpellsOfCall[j].alias
            /\ PageOfCall(n) = <<>>
            /\ call.page = n => call.result = <<>>
            /\ call.page \in 0..(n - 1) =>
                  /\ call.result # <<>>
                  /\ \A k \in DOMAIN call.result :
                        call.result[k] = AllSpellsOfCall[call.page * P + k]

\* Three spells in pages of two: the call asked for the page past the last one.
C8_Witness ==
    /\ PaginateReturned
    /\ Len(AllSpellsOfCall) = 3
    /\ call.n_per_page = 2
    /\ call.n_pages_total = 2
    /\ call.page = 2
    /\ call.result = <<>>

\* C9: a page index outside 0..n_pages_total-1, above the range or negative,
\* gives an empty slice.
C9_OutOfRangePageIsEmpty ==
    (PaginateReturned /\ call.page \notin 0..(call.n_pages_total - 1)) =>
        call.result = <<>>

(***************************************************************************)
(* Extended spell info: the detail scrape (spellsource.py), the table      *)
(* images (html2image.py), the extended_spell_info table (database.py) and *)
(* SpellSearch.full_info.                                                  *)
(*                                                                         *)
(* The detail page as the client gets it is a record                       *)
(*   [status, info, tables]: status "ok", or the exception the fetch or    *)
(*   the parse raises; info stands for full_name, school, variables and    *)
(*   text together; tables is the list of <table> fragments.               *)
(* The image service's behaviour for one table is a record                 *)
(*   [create, download]: create is "url" (the response carries a url),     *)
(*   "no_url" (it does not) or "raise" (the request fails); download says  *)
(*   whether fetching the image succeeds.                                  *)
(* An extended_spell_info row carries its spell_table rows as a list.      *)
(***************************************************************************)
\* A NULL short_spell_info_id; row ids start at 1.
NULL == 0

None == "None"

NoPath == <<>>

NoExtendedSpellInfo == [info |-> None, tables |-> <<>>]

\* SpellTable(html=table): url and path are left unset
SpellTable(html) == [html |-> html, url |-> None, path |-> NoPath]

\* SourceUpdater.update_spell_info -> _collect_spell_info
update_spell_info(page) ==
    IF page.status # "ok"
    THEN [err |-> page.status, info |-> None, tables |-> <<>>]
    ELSE [err |-> "none", info |-> page.info,
          tables |-> [i \in DOMAIN page.tables |-> SpellTable(page.tables[i])]]

\* HctiApi.create_image: a failed request raises, a response without "url" gives None
create_image(hcti) ==
    CASE hcti.create = "raise"  -> [err |-> "ConnectionError", url |-> None]
      [] hcti.create = "no_url" -> [err |-> "none", url |-> None]
      [] OTHER                  -> [err |-> "none", url |-> "hcti_url"]

\* HctiApi.download_image: writes the file unless it exists; every failure
\* (requests.get(None) included) is logged and swallowed.
download_image(fs, url, path, hcti) ==
    IF path \in fs THEN fs
    ELSE IF url # None /\ hcti.download THEN fs \cup {path}
    ELSE fs

\* Mutation of find_or_create: the file on disk is not looked at.
find_or_create_always_render(fs, html, path, hcti) ==
    LET created == create_image(hcti)
    IN  IF created.err # "none"
        THEN [files |-> fs, err |-> created.err, table |-> SpellTable(html),
              rendered |-> TRUE, downloaded |-> FALSE]
        ELSE [files |-> fs \cup (IF created.url # None /\ hcti.download THEN {path} ELSE {}),
              err |-> "none",
              table |-> [html |-> html, url |-> created.url, path |-> path],
              rendered |-> TRUE, downloaded |-> TRUE]

\* HctiApi.find_or_create.  rendered: create_image was called; downloaded:
\* download_image was called (it fetches, the file being absent).
find_or_create(fs, html, path, hcti) ==
    IF path \in fs
    THEN [files |-> fs, err |-> "none", table |-> [html |-> html, url |-> None, path |-> path],
          rendered |-> FALSE, downloaded |-> FALSE]
    ELSE LET created == create_image(hcti)
         IN  IF created.err # "none"
             THEN [files |-> fs, err |-> created.err, table |-> SpellTable(html),
                   rendered |-> TRUE, downloaded |-> FALSE]
             ELSE [files |-> download_image(fs, created.url, path, hcti), err |-> "none",
                   table |-> [html |-> html, url |-> created.url, path |-> path],
                   rendered |-> TRUE, downloaded |-> TRUE]

\* ExtendedSpellInfo.from_orm(record)
ExtendedSpellInfo_from_orm(row) == [info |-> row.info, tables |-> row.tables]

\* Database.get_full_spell_info: the short row with that alias and, through the
\* one-to-one relationship, its extended row; each a set of at most one.
get_full_spell_info(spell_tbl, ext_tbl, spell_alias) ==
    LET short == {r \in spell_tbl : r.alias = spell_alias}
    IN  [short |-> short,
         extended |-> {ExtendedSpellInfo_from_orm(e) :
                          e \in {x \in ext_tbl : \E r \in short : x.short_spell_info_id = r.id}}]

\* Mutation of create_extended_spell_info_reads: the short row is not looked up.
create_extended_spell_info_reads_no_owner(spell_tbl, ext_tbl, spell_alias) ==
    [owner |-> NULL, old |-> {}]

\* Database.create_extended_spell_info, the reads of its session: the short row
\* with that alias (NULL when there is none) and, when the new record is
\* attached to it, the extended rows that reference it now.
create_extended_spell_info_reads(spell_tbl, ext_tbl, spell_alias) ==
    LET short == {r \in spell_tbl : r.alias = spell_alias}
        owner == IF short = {} THEN NULL ELSE (CHOOSE r \in short : TRUE).id
    IN  [owner |-> owner,
         old |-> {e.id : e \in {x \in ext_tbl : owner # NULL /\ x.short_spell_info_id = owner}}]

\* Mutation of create_extended_spell_info_flush: short_spell_info_id is not
\* declared unique.
create_extended_spell_info_flush_not_unique(ext_tbl, reads, info, tables) ==
    LET row == [id |-> NextRowId(ext_tbl), short_spell_info_id |-> reads.owner,
                info |-> info, tables |-> tables]
    IN  [tbl |-> {IF e.id \in reads.old THEN [e EXCEPT !.short_spell_info_id = NULL] ELSE e :
                     e \in ext_tbl} \cup {row},
         err |-> "none", result |-> ExtendedSpellInfo_from_orm(row)]

\* Database.create_extended_spell_info, db.add + db.commit: the rows read as
\* attached are detached (UPDATE ... SET short_spell_info_id = NULL), then the
\* new row is inserted.  short_spell_info_id is UNIQUE: the INSERT raises
\* IntegrityError, and the transaction is rolled back, when a row that the
\* session had not read references the same short row.
create_extended_spell_info_flush(ext_tbl, reads, info, tables) ==
    LET row  == [id |-> NextRowId(ext_tbl), short_spell_info_id |-> reads.owner,
                 info |-> info, tables |-> tables]
        kept == {IF e.id \in reads.old THEN [e EXCEPT !.short_spell_info_id = NULL] ELSE e :
                    e \in ext_tbl}
    IN  IF reads.owner # NULL /\ \E e \in kept : e.short_spell_info_id = reads.owner
        THEN [tbl |-> ext_tbl, err |-> "IntegrityError", result |-> NoExtendedSpellInfo]
        ELSE [tbl |-> kept \cup {row}, err |-> "none",
              result |-> ExtendedSpellInfo_from_orm(row)]

\* Mutation of create_extended_spell_info: a spell that has an extended record
\* is refused a second one.
create_extended_spell_info_rejecting(spell_tbl, ext_tbl, spell_alias, info, tables) ==
    LET reads == create_extended_spell_info_reads(spell_tbl, ext_tbl, spell_alias)
    IN  create_extended_spell_info_flush(ext_tbl, [reads EXCEPT !.old = {}], info, tables)

\* Database.create_extended_spell_info, called with nothing else running: the
\* new row points at the short row with that alias, or at nothing when there is
\* none.  Attaching it to a short row that has an extended row detaches the old
\* one (its reference is set to NULL in the same flush, before the INSERT).
create_extended_spell_info(spell_tbl, ext_tbl, spell_alias, info, tables) ==
    create_extended_spell_info_flush(
        ext_tbl, create_extended_spell_info_reads(spell_tbl, ext_tbl, spell_alias),
        info, tables)

\* The loop of full_info over the scraped tables, t_idx counted from 0; hcti[i]
\* is the image service's behaviour for the i-th table.  calls collects what
\* each find_or_create call did and returned.
RECURSIVE FindOrCreateAll(_, _, _, _, _)
FindOrCreateAll(fs, spell_alias, tables, hcti, calls) ==
    IF Len(calls) = Len(tables)
    THEN [files |-> fs, err |-> "none", calls |-> calls]
    ELSE LET t_idx == Len(calls)
             r == find_or_create(fs, tables[t_idx + 1].html, <<spell_alias, t_idx>>,
                                 hcti[t_idx + 1])
         IN  IF r.err # "none"
             THEN [files |-> r.files, err |-> r.err, calls |-> Append(calls, r)]
             ELSE FindOrCreateAll(r.files, spell_alias, tables, hcti, Append(calls, r))

\* updated_tables: the table each find_or_create call returned
UpdatedTables(calls) == [i \in DOMAIN calls |-> calls[i].table]

\* The table indices for which create_image was called.
RenderedIdx(calls) == {i - 1 : i \in {j \in DOMAIN calls : calls[j].rendered}}

\* The table indices whose render or download failed: create_image was called
\* and no image file came of it.
FailedIdx(spell_alias, fs, calls) ==
    {t_idx \in RenderedIdx(calls) : <<spell_alias, t_idx>> \notin fs}

\* SpellSearch.full_info
full_info(spell_tbl, ext_tbl, fs, spell_alias, page, hcti) ==
    LET got     == get_full_spell_info(spell_tbl, ext_tbl, spell_alias)
        scraped == update_spell_info(page)
        images  == FindOrCreateAll(fs, spell_alias, scraped.tables, hcti, <<>>)
        created == create_extended_spell_info(spell_tbl, ext_tbl, spell_alias,
                                              scraped.info, UpdatedTables(images.calls))
    IN  IF got.extended # {}
        THEN [tbl |-> ext_tbl, files |-> fs, err |-> "none", scraped |-> FALSE,
              rendered |-> {}, failed |-> {},
              result |-> CHOOSE e \in got.extended : TRUE]
        ELSE IF scraped.err # "none"
        THEN [tbl |-> ext_tbl, files |-> fs, err |-> scraped.err, scraped |-> TRUE,
              rendered |-> {}, failed |-> {},
              result |-> NoExtendedSpellInfo]
        ELSE IF images.err # "none"
        THEN [tbl |-> ext_tbl, files |-> images.files, err |-> images.err,
              scraped |-> TRUE, rendered |-> RenderedIdx(images.calls),
              failed |-> FailedIdx(spell_alias, images.files, images.calls),
              result |-> NoExtendedSpellInfo]
        ELSE [tbl |-> created.tbl, files |-> images.files, err |-> "none",
              scraped |-> TRUE, rendered |-> RenderedIdx(images.calls),
              failed |-> FailedIdx(spell_alias, images.files, images.calls),
              result |-> created.result]

\* The extended_spell_info table is explored up to this many rows.
MaxExtendedRows == 2

\* No detail page was fetched.
NoPage == [status |-> "not fetched", info |-> None, tables |-> <<>>]

\* SpellSearch.full_info(spell_alias); page and hcti are what the detail page
\* and the image service answer during the call.  The call record keeps the
\* short row found (had_short), the page fetched, the table indices rendered
\* and the ones whose image failed.
FullInfo(spell_alias, page, hcti) ==
    LET r == full_info(short_spell_info_tbl, extended_spell_info_tbl, files,
                       spell_alias, page, hcti)
    IN  /\ r.tbl # extended_spell_info_tbl =>
              Cardinality(extended_spell_info_tbl) < MaxExtendedRows
        /\ extended_spell_info_tbl' = r.tbl
        /\ files' = r.files
        /\ call' = [op |-> "full_info", spell_alias |-> spell_alias, err |-> r.err,
                    had_short |-> \E row \in short_spell_info_tbl : row.alias = spell_alias,
                    scraped |-> r.scraped,
                    page |-> IF r.scraped THEN page ELSE NoPage,
                    rendered |-> r.rendered, failed |-> r.failed,
                    result |-> r.result]
        /\ UNCHANGED <<bot_db, class_tbl, school_tbl, short_spell_info_tbl, chat_settings_tbl, procs>>

(***************************************************************************)
(* Extended spell info: the inputs.  The registry holds fireball; "ghost"  *)
(* is an alias of no stored spell.  The detail page is unreachable, lacks  *)
(* its heading, or parses to one of two contents without tables or to a    *)
(* content with two tables.                                                *)
(***************************************************************************)
DetailRaws == {r \in SearchRaws : Len(r.spells) = 1 /\ r.extra # <<>>}

DetailAliases == {"fireball", "ghost"}

DetailPages ==
    {[status |-> st, info |-> None, tables |-> <<>>] : st \in {"ConnectionError", "AttributeError"}}
    \cup {[status |-> "ok", info |-> i, tables |-> <<>>] : i \in {"v1", "v2"}}
    \cup {[status |-> "ok", info |-> "v1", tables |-> <<"<table>", "<table2>">>]}

HctiOutcomes ==
    {[create |-> "raise", download |-> FALSE], [create |-> "no_url", download |-> FALSE],
     [create |-> "url", download |-> FALSE], [create |-> "url", download |-> TRUE]}

NextDetail ==
    \/ \E raw \in DetailRaws : UpdateSources(raw)
    \/ \E a \in DetailAliases, page \in DetailPages :
          \E hcti \in [DOMAIN page.tables -> HctiOutcomes] : FullInfo(a, page, hcti)

SpecDetail == Init /\ [][NextDetail]_vars

(***************************************************************************)
(* Extended spell info: the claims                                         *)
(***************************************************************************)
\* C10: of two successive full_info calls for one alias, the first having
\* returned, the second does not scrape and returns the content the first
\* returned.
C10_SecondCallIsCacheHit ==
    [][(/\ call.op = "full_info"
        /\ call.err = "none"
        /\ call'.op = "full_info"
        /\ call'.spell_alias = call.spell_alias)
       => (/\ ~call'.scraped
           /\ call'.err = "none"
           /\ call'.result = call.result)]_vars

\* C13: when the render call or the download fails for a table during the
\* lazy fill, full_info still succeeds, the failed table is left out of the
\* returned and persisted extended info, the text and the other tables are
\* kept.
C13_FailedTableIsOmitted ==
    (/\ call.op = "full_info"
     /\ call.scraped
     /\ call.page.status = "ok"
     /\ call.failed # {}) =>
        /\ call.err = "none"
        /\ call.result.info = call.page.info
        /\ \A i \in DOMAIN call.result.tables : call.result.tables[i].path[2] \notin call.failed
        /\ Len(call.result.tables) = Len(call.page.tables) - Cardinality(call.failed)
        /\ \E e \in extended_spell_info_tbl : ExtendedSpellInfo_from_orm(e) = call.result

\* C19: full_info for an alias without a ShortSpellInfo row fails with NotFound,
\* and no extended row exists without the short row that owns it.
C19_UnknownAliasIsNotFound ==
    /\ (call.op = "full_info" /\ ~call.had_short) => call.err = "NotFound"
    /\ \A e \in extended_spell_info_tbl :
          \E row \in short_spell_info_tbl : row.id = e.short_spell_info_id

(***************************************************************************)
(* Table images: HctiApi.find_or_create called on its own, and the local   *)
(* renderer (image_generator/html_to_image.py).                            *)
(***************************************************************************)
\* SpellSearch / a caller of HctiApi.find_or_create(html, path)
FindOrCreate(html, path, hcti) ==
    LET r == find_or_create(files, html, path, hcti)
    IN  /\ files' = r.files
        /\ call' = [op |-> "find_or_create", html |-> html, path |-> path,
                    existed |-> path \in files, rendered |-> r.rendered,
                    downloaded |-> r.downloaded, err |-> r.err, table |-> r.table]
        /\ UNCHANGED <<bot_db, class_tbl, school_tbl, short_spell_info_tbl,
                       extended_spell_info_tbl, chat_settings_tbl, procs>>

\* HtmlToImage._spell_table_dir(spell_alias) / f"{idx}.jpg"
ScreenshotPath(spell_alias, idx) == <<"spell_tables", spell_alias, idx>>

\* HtmlToImage._load_or_create_screenshots with output_path the directory of
\* spell_alias.  screenshots: the indices hti.screenshot was called for, in
\* order; when the browser fails (shot_ok false) the first call raises.
RECURSIVE _load_or_create_screenshots(_, _, _, _, _, _)
_load_or_create_screenshots(fs, spell_alias, html_strs, force_create, shot_ok, seen) ==
    IF Len(seen.result_paths) = Len(html_strs)
    THEN [files |-> fs, err |-> "none", screenshots |-> seen.screenshots,
          result_paths |-> seen.result_paths]
    ELSE LET idx == Len(seen.result_paths)
             file_path == ScreenshotPath(spell_alias, idx)
         IN  IF force_create \/ file_path \notin fs
             THEN IF shot_ok
                  THEN _load_or_create_screenshots(
                           fs \cup {file_path}, spell_alias, html_strs, force_create, shot_ok,
                           [screenshots |-> Append(seen.screenshots, idx),
                            result_paths |-> Append(seen.result_paths, file_path)])
                  ELSE [files |-> fs, err |-> "ScreenshotError",
                        screenshots |-> Append(seen.screenshots, idx),
                        result_paths |-> seen.result_paths]
             ELSE _load_or_create_screenshots(
                      fs, spell_alias, html_strs, force_create, shot_ok,
                      [screenshots |-> seen.screenshots,
                       result_paths |-> Append(seen.result_paths, file_path)])

\* HtmlToImage.spell_tables(html_strs, spell_alias): force_create keeps its default
SpellTables(html_strs, spell_alias, shot_ok) ==
    LET r == _load_or_create_screenshots(files, spell_alias, html_strs, FALSE, shot_ok,
                                         [screenshots |-> <<>>, result_paths |-> <<>>])
    IN  /\ files' = r.files
        /\ call' = [op |-> "spell_tables", spell_alias |-> spell_alias,
                    html_strs |-> html_strs, screenshots |-> r.screenshots,
                    err |-> r.err, result_paths |-> r.result_paths]
        /\ UNCHANGED <<bot_db, class_tbl, school_tbl, short_spell_info_tbl,
                       extended_spell_info_tbl, chat_settings_tbl, procs>>

(***************************************************************************)
(* Table images: the inputs                                                *)
(***************************************************************************)
TableHtmls == {"<table>", "<table2>"}

ImagePaths == {<<"fireball", 0>>, <<"fireball", 1>>}

ScreenshotJobs == {<<"<table>">>, <<"<table2>", "<table>">>}

NextImages ==
    \/ \E html \in TableHtmls, path \in ImagePaths, hcti \in HctiOutcomes :
          FindOrCreate(html, path, hcti)
    \/ \E job \in ScreenshotJobs, ok \in BOOLEAN : SpellTables(job, "fireball", ok)

SpecImages == Init /\ [][NextImages]_vars

(***************************************************************************)
(* Table images: the claims                                                *)
(***************************************************************************)
\* C11: find_or_create on a path whose file exists makes no render call and
\* no download call, returns the table [html, no url, that path] and leaves
\* the files as they are, whatever the html; the local renderer takes no
\* screenshot for an index whose file exists.
C11_ExistingFileIsCacheHit ==
    [][/\ (call'.op = "find_or_create" /\ call'.path \in files) =>
              /\ ~call'.rendered
              /\ ~call'.downloaded
              /\ call'.err = "none"
              /\ call'.table = [html |-> call'.html, url |-> None, path |-> call'.path]
              /\ files' = files
       /\ call'.op = "spell_tables" =>
              \A i \in DOMAIN call'.screenshots :
                  ScreenshotPath(call'.spell_alias, call'.screenshots[i]) \notin files
      ]_vars

\* A find_or_create call found the file: nothing rendered, the path returned.
C11_Witness ==
    /\ call.op = "find_or_create"
    /\ call.existed
    /\ ~call.rendered
    /\ call.table.path = call.path
    /\ call.table.url = None
    /\ call.html = "<table2>"
    /\ Cardinality(files) >= 2

\* The (spell alias, table index) pairs create_image was called for in a call.
RenderedPairs(c) ==
    IF c.op = "find_or_create" THEN (IF c.rendered THEN {c.path} ELSE {})
    ELSE IF c.op = "full_info" THEN {<<c.spell_alias, t_idx>> : t_idx \in c.rendered}
    ELSE {}

\* C12: the render service is called at most once for each (spell alias,
\* table index): no two successive calls both render the same pair.
C12_RenderAtMostOnce ==
    [][RenderedPairs(call) \cap RenderedPairs(call') = {}]_vars

(***************************************************************************)
(* Chat settings: the actions and the inputs.  Upstream publishes spells   *)
(* of three books; a refresh sees the first k of them, so that chats are   *)
(* created before and after a book becomes known.                          *)
(***************************************************************************)
\* SpellSearch.get_chat_settings -> Database.get_or_create_chat_settings
GetOrCreateChatSettings(chat_id) ==
    LET r == get_or_create_chat_settings(chat_settings_tbl, short_spell_info_tbl, chat_id)
    IN  /\ chat_settings_tbl' = r.tbl
        /\ call' = [op |-> "get_or_create_chat_settings", chat_id |-> chat_id,
                    existed |-> _get_chat_settings(chat_settings_tbl, chat_id) # {},
                    err |-> "none", result |-> r.result.book_filter]
        /\ UNCHANGED <<bot_db, class_tbl, school_tbl, short_spell_info_tbl,
                       extended_spell_info_tbl, files, procs>>

\* Database._iter_classes: `if book_filter:` takes the empty list as no filter.
_iter_classes(cls_tbl, book_filter) ==
    IF book_filter # {} THEN {c \in cls_tbl : c.book_alias \in book_filter} ELSE cls_tbl

\* Database.iter_classes, consumed to its end: the settings table after the
\* lazy creation of the chat's row, and the classes yielded.
iter_classes(cdb, settings_tbl, chat_id) ==
    LET filter == _get_book_filter(settings_tbl, cdb.spell, chat_id)
    IN  [tbl |-> filter.tbl, include_books |-> filter.include_books,
         found |-> _iter_classes(cdb.class, filter.include_books)]

\* SpellSearch.iter_classes(chat_id)
IterClasses(chat_id) ==
    LET r == iter_classes(db, chat_settings_tbl, chat_id)
    IN  /\ chat_settings_tbl' = r.tbl
        /\ call' = [op |-> "iter_classes", chat_id |-> chat_id, err |-> "none",
                    include_books |-> r.include_books, result |-> r.found]
        /\ UNCHANGED <<bot_db, class_tbl, school_tbl, short_spell_info_tbl,
                       extended_spell_info_tbl, files, procs>>

SettingsSpells ==
    << [Alias |-> "fireball", Name |-> <<"B", "a">>, BookAlias |-> "coreRulebook",
        ClassSpell |-> <<[ClassId |-> 1, Level |-> 3]>>, SchoolIds |-> <<1>>],
       [Alias |-> "aram", Name |-> <<"A", "b">>, BookAlias |-> "advancedPlayerGuide",
        ClassSpell |-> <<[ClassId |-> 1, Level |-> 1]>>, SchoolIds |-> <<1>>],
       [Alias |-> "slow", Name |-> <<"a", "b">>, BookAlias |-> "ultimateMagic",
        ClassSpell |-> <<[ClassId |-> 2, Level |-> 2]>>, SchoolIds |-> <<1>>] >>

SettingsRaws ==
    {[classes |-> UpstreamClasses,
      extra |-> CHOOSE all \in ExtrasFor(UpstreamClasses) : DOMAIN all = {"Wizard", "Priest"},
      schools |-> UpstreamSchools,
      spells |-> SubSeq(SettingsSpells, 1, k)] : k \in 0..Len(SettingsSpells)}

SettingsChats == {1, 2}

SettingsBooks == {"coreRulebook", "advancedPlayerGuide", "ultimateMagic"}

NextSettings ==
    \/ \E raw \in SettingsRaws : UpdateSources(raw)
    \/ \E chat \in SettingsChats : GetOrCreateChatSettings(chat)
    \/ \E chat \in SettingsChats, b \in SettingsBooks : UpdateBookFilter(chat, b)
    \/ \E chat \in SettingsChats : IterClasses(chat)

SpecSettings == Init /\ [][NextSettings]_vars

(***************************************************************************)
(* Chat settings: the claims                                               *)
(***************************************************************************)
\* The stored filter of a chat (the chat has a row).
FilterOf(settings_tbl, chat_id) ==
    (CHOOSE r \in settings_tbl : r.chat_id = chat_id).book_filter

HasRow(settings_tbl, chat_id) == \E r \in settings_tbl : r.chat_id = chat_id

\* C14: update_book_filter(X, B) for a book B that X's filter has changes only
\* the entry for B of chat X: X's other entries and key set stay, and so does
\* the row of every other chat.
C14_ToggleChangesOneEntry ==
    [][(/\ call'.op = "update_book_filter"
        /\ HasRow(chat_settings_tbl, call'.chat_id)
        /\ call'.book_alias \in DOMAIN FilterOf(chat_settings_tbl, call'.chat_id))
       => LET X   == call'.chat_id
              B   == call'.book_alias
              old == FilterOf(chat_settings_tbl, X)
              new == FilterOf(chat_settings_tbl', X)
          IN  /\ call'.err = "none"
              /\ HasRow(chat_settings_tbl', X)
              /\ DOMAIN new = DOMAIN old
              /\ new[B] = ~old[B]
              /\ \A b \in DOMAIN old \ {B} : new[b] = old[b]
              /\ call'.result = new
              /\ {r \in chat_settings_tbl' : r.chat_id # X}
                    = {r \in chat_settings_tbl : r.chat_id # X}]_vars

\* Chat 1 toggled a book while chat 2 holds a different filter.
C14_Witness ==
    /\ call.op = "update_book_filter"
    /\ call.err = "none"
    /\ call.chat_id = 1
    /\ call.book_alias = "ultimateMagic"
    /\ HasRow(chat_settings_tbl, 1)
    /\ HasRow(chat_settings_tbl, 2)
    /\ FilterOf(chat_settings_tbl, 1) = call.result
    /\ FilterOf(chat_settings_tbl, 2) # FilterOf(chat_settings_tbl, 1)
    /\ call.result # call.before

\* C15: update_book_filter applied twice in succession to the same chat and
\* book leaves the chat's filter as it was before the first call.
C15_ToggleTwiceRestores ==
    [][(/\ call.op = "update_book_filter"
        /\ call'.op = "update_book_filter"
        /\ call'.chat_id = call.chat_id
        /\ call'.book_alias = call.book_alias)
       => /\ call'.result = call.before
          /\ FilterOf(chat_settings_tbl', call'.chat_id) = call.before]_vars

\* The second of two toggles has returned: the entry is back to its value.
C15_Witness ==
    /\ call.op = "update_book_filter"
    /\ call.err = "none"
    /\ call.book_alias = "ultimateMagic"
    /\ call.before["ultimateMagic"]
    /\ ~call.result["ultimateMagic"]
    /\ ~call.result["coreRulebook"]

\* C16 as stated: the filter created for a chat without a row has coreRulebook
\* true and every other rulebook known to the store false.
C16_OnlyCoreIsOn ==
    (call.op = "get_or_create_chat_settings" /\ ~call.existed) =>
        /\ call.result["coreRulebook"]
        /\ \A b \in _iter_rulebooks(short_spell_info_tbl) \ {"coreRulebook"} :
              ~call.result[b]

\* C16: the filter created for a chat without a row has coreRulebook and
\* advancedPlayerGuide true and every other entry false; a following
\* update_book_filter(chat, "coreRulebook") returns coreRulebook false and the
\* other entries as they were.
C16_CoreAndGuideAreOn ==
    [][/\ (call'.op = "get_or_create_chat_settings" /\ ~call'.existed) =>
              /\ {"coreRulebook", "advancedPlayerGuide"} \subseteq DOMAIN call'.result
              /\ call'.result["coreRulebook"]
              /\ call'.result["advancedPlayerGuide"]
              /\ \A b \in DOMAIN call'.result \ {"coreRulebook", "advancedPlayerGuide"} :
                    ~call'.result[b]
       /\ (/\ call.op = "get_or_create_chat_settings"
           /\ ~call.existed
           /\ call'.op = "update_book_filter"
           /\ call'.chat_id = call.chat_id
           /\ call'.book_alias = "coreRulebook") =>
              /\ call'.err = "none"
              /\ call'.result = [call.result EXCEPT !["coreRulebook"] = FALSE]]_vars

\* A chat was created on a store that knows all three books.
C16_Witness ==
    /\ call.op = "get_or_create_chat_settings"
    /\ ~call.existed
    /\ _iter_rulebooks(short_spell_info_tbl) = SettingsBooks
    /\ call.result["advancedPlayerGuide"]
    /\ ~call.result["ultimateMagic"]

\* C17: the first get_or_create_chat_settings of a chat stores and returns a
\* filter with an entry for every rulebook the store knows, all false but
\* coreRulebook and advancedPlayerGuide; a later call returns the stored
\* mapping as it is and stores nothing.
C17_DefaultBuiltOnceThenStored ==
    [][call'.op = "get_or_create_chat_settings" =>
          IF HasRow(chat_settings_tbl, call'.chat_id)
          THEN /\ call'.result = FilterOf(chat_settings_tbl, call'.chat_id)
               /\ chat_settings_tbl' = chat_settings_tbl
          ELSE /\ _iter_rulebooks(short_spell_info_tbl) \subseteq DOMAIN call'.result
               /\ \A b \in DOMAIN call'.result :
                     call'.result[b] <=> b \in {"coreRulebook", "advancedPlayerGuide"}
               /\ chat_settings_tbl' = chat_settings_tbl
                     \cup {[chat_id |-> call'.chat_id, book_filter |-> call'.result]}]_vars

\* A later call returned a stored mapping that a rebuild would not give: the
\* store has learnt a book since.
C17_Witness ==
    /\ call.op = "get_or_create_chat_settings"
    /\ call.existed
    /\ call.result = FilterOf(chat_settings_tbl, call.chat_id)
    /\ "ultimateMagic" \in _iter_rulebooks(short_spell_info_tbl)
    /\ "ultimateMagic" \notin DOMAIN call.result

(***************************************************************************)
(* Lookups: Database.get_class and Database.has_spell_list                 *)
(***************************************************************************)
\* No value object: the call raised.
NoClassInfo == [id |-> NULL, alias |-> None, name |-> None, book_alias |-> None]

\* ClassInfo.from_orm(c): the columns of the row; from_orm(None) finds none of
\* the required fields and raises pydantic's ValidationError.
ClassInfo_from_orm(rows) ==
    IF rows = {} THEN [err |-> "ValidationError", result |-> NoClassInfo]
    ELSE [err |-> "none", result |-> CHOOSE c \in rows : TRUE]

\* Mutation of get_class: a missing row is returned as an empty value object.
get_class_unchecked(cls_tbl, class_id) ==
    [err |-> "none",
     result |-> ClassInfo_from_orm({c \in cls_tbl : c.id = class_id}).result]

\* Database.get_class: the first row with that id, through ClassInfo.from_orm
get_class(cls_tbl, class_id) ==
    ClassInfo_from_orm({c \in cls_tbl : c.id = class_id})

\* Database.has_spell_list(min_n)
has_spell_list(spell_tbl, min_n) == Cardinality(spell_tbl) > min_n

\* SpellSearch.class_info -> Database.get_class
GetClass(class_id) ==
    LET r == get_class(class_tbl, class_id)
    IN  /\ call' = [op |-> "get_class", class_id |-> class_id, err |-> r.err,
                    result |-> r.result]
        /\ UNCHANGED <<bot_db, class_tbl, school_tbl, short_spell_info_tbl,
                       extended_spell_info_tbl, chat_settings_tbl, files, procs>>

\* Database.has_spell_list(min_n)
HasSpellList(min_n) ==
    /\ call' = [op |-> "has_spell_list", min_n |-> min_n,
                result |-> has_spell_list(short_spell_info_tbl, min_n)]
    /\ UNCHANGED <<bot_db, class_tbl, school_tbl, short_spell_info_tbl,
                   extended_spell_info_tbl, chat_settings_tbl, files, procs>>

\* Database.iter_levels: the levels that the rows whose classes mapping has
\* class_id at an integer >= 0 give to class_id, collected in a set.
iter_levels(spell_tbl, class_id) ==
    {r.classes[class_id] :
        r \in {x \in spell_tbl : class_id \in DOMAIN x.classes /\ x.classes[class_id] >= 0}}

\* SpellSearch.iter_levels(class_id)
IterLevels(class_id) ==
    /\ call' = [op |-> "iter_levels", class_id |-> class_id,
                result |-> iter_levels(short_spell_info_tbl, class_id)]
    /\ UNCHANGED <<bot_db, class_tbl, school_tbl, short_spell_info_tbl,
                   extended_spell_info_tbl, chat_settings_tbl, files, procs>>

\* The largest min_n asked for; the stores hold up to four spells.
MaxMinN == 4

LookupClassIds == {1, 2, 3}

NextLookup ==
    \/ \E raw \in SearchRaws : UpdateSources(raw)
    \/ \E c \in LookupClassIds : GetClass(c)
    \/ \E n \in 0..MaxMinN : HasSpellList(n)
    \/ \E c \in LookupClassIds : IterLevels(c)

SpecLookup == Init /\ [][NextLookup]_vars

C20_AtLeastMinN ==
    call.op = "has_spell_list" =>
        (call.result <=> Cardinality(short_spell_info_tbl) >= call.min_n)

(***************************************************************************)
(* spell_search.py: constructing a SpellSearch                             *)
(*                                                                         *)
(* Each worker builds its own SpellSearch on the shared store.  __init__   *)
(* ends with _check_db_readiness(): the probe has_spell_list(), and, when  *)
(* it is false, update_sources(): the fetch, then the upsert.  Between the *)
(* probe, the fetch and the upsert other workers can run.  A worker's      *)
(* record keeps                                                            *)
(*   pc        "fetch", "upsert" inside update_sources; "ready" once       *)
(*             __init__ has returned and no call is running; "failed" when *)
(*             __init__ raised                                             *)
(*   built     __init__ has returned: the instance exists                  *)
(*   probe, fetched, upserted   what happened during construction          *)
(*   served    the instance has answered a query                           *)
(*   payload   what update_registry returned, until it is upserted         *)
(***************************************************************************)
\* has_spell_list's default min_n (1000 in the code), scaled down.
MinSpells == 1

\* Mutation of _check_db_readiness: the probe's answer is ignored.
_check_db_readiness_no_refresh(spell_tbl) == "ready"

\* SpellSearch._check_db_readiness: where the constructor goes after the probe.
_check_db_readiness(spell_tbl) ==
    IF has_spell_list(spell_tbl, MinSpells) THEN "ready" ELSE "fetch"

\* Mutation of Raised: the exception is swallowed and the instance is handed out.
Raised_swallowed(p) == [p EXCEPT !.pc = "ready", !.built = TRUE]

\* An exception leaving update_sources: nothing catches it in update_sources or
\* in _check_db_readiness, so inside __init__ no instance comes to exist; on a
\* built instance it reaches the caller and the instance stays usable.
Raised(p) == IF p.built THEN [p EXCEPT !.pc = "ready"] ELSE [p EXCEPT !.pc = "failed"]

\* SpellSearch.__init__ up to and including the probe.
Construct(w) ==
    LET pc == _check_db_readiness(short_spell_info_tbl)
    IN  /\ procs[w] = Idle
        /\ procs' = [procs EXCEPT ![w] =
                        [pc |-> pc, built |-> pc = "ready",
                         probe |-> has_spell_list(short_spell_info_tbl, MinSpells),
                         fetched |-> FALSE, upserted |-> FALSE, served |-> FALSE,
                         payload |-> PayloadOf(NothingExtracted)]]
        /\ call' = [op |-> "probe", worker |-> w, err |-> "none"]
        /\ UNCHANGED <<bot_db, class_tbl, school_tbl, short_spell_info_tbl,
                       extended_spell_info_tbl, chat_settings_tbl, files>>

\* update_sources() called on a built instance.
StartUpdateSources(w) ==
    /\ procs[w].pc = "ready"
    /\ procs' = [procs EXCEPT ![w].pc = "fetch"]
    /\ call' = [op |-> "update_sources", worker |-> w, err |-> "none"]
    /\ UNCHANGED <<bot_db, class_tbl, school_tbl, short_spell_info_tbl,
                   extended_spell_info_tbl, chat_settings_tbl, files>>

\* update_sources, first line: self.source.update_registry().
Fetch(w, raw) ==
    LET got == update_registry(raw)
        p   == procs[w]
    IN  /\ p.pc = "fetch"
        /\ procs' = [procs EXCEPT ![w] =
                        IF got.err # "none" THEN Raised(p)
                        ELSE [p EXCEPT !.pc = "upsert", !.payload = PayloadOf(got),
                                       !.fetched = IF p.built THEN @ ELSE TRUE]]
        /\ call' = [op |-> "fetch", worker |-> w, err |-> got.err]
        /\ UNCHANGED <<bot_db, class_tbl, school_tbl, short_spell_info_tbl,
                       extended_spell_info_tbl, chat_settings_tbl, files>>

\* update_sources, second line: self.db.create_or_update_registry(...), with
\* what the fetch returned.  What the upsert committed before an exception stays.
Upsert(w) ==
    LET p == procs[w]
        r == create_or_update_registry(db, p.payload)
    IN  /\ p.pc = "upsert"
        /\ SetRegistry(r.db)
        /\ procs' = [procs EXCEPT ![w] =
                        IF r.err # "none"
                        THEN [Raised(p) EXCEPT !.payload = PayloadOf(NothingExtracted)]
                        ELSE [p EXCEPT !.pc = "ready", !.built = TRUE,
                                       !.payload = PayloadOf(NothingExtracted),
                                       !.upserted = IF p.built THEN @ ELSE TRUE]]
        /\ call' = [op |-> "upsert", worker |-> w, err |-> r.err]
        /\ UNCHANGED <<bot_db, extended_spell_info_tbl, chat_settings_tbl, files>>

\* A query on a built instance: short_info(query, chat_id).
Serve(w, query) ==
    /\ procs[w].pc = "ready"
    /\ procs' = [procs EXCEPT ![w].served = TRUE]
    /\ call' = [op |-> "serve", worker |-> w, err |-> "none",
                result |-> short_info(db, chat_settings_tbl, query, NoChat, DefaultTopN)]
    /\ UNCHANGED <<bot_db, class_tbl, school_tbl, short_spell_info_tbl,
                   extended_spell_info_tbl, chat_settings_tbl, files>>

\* What the upstream site can answer: one spell (the store stays below
\* MinSpells + 1) or three, with or without the class pages' extra data, and a
\* listing whose spell names a school that the listing lacks.
BootRaws ==
    LET good == {r \in SearchRaws : Len(r.spells) \in {1, 3}}
    IN  good \cup {[r EXCEPT !.schools = <<>>] : r \in {g \in good : g.extra = <<>> /\ Len(g.spells) = 1}}

NextBoot ==
    \/ \E w \in Workers : Construct(w)
    \/ \E w \in Workers : StartUpdateSources(w)
    \/ \E w \in Workers, raw \in BootRaws : Fetch(w, raw)
    \/ \E w \in Workers : Upsert(w)
    \/ \E w \in Workers : Serve(w, <<"a">>)

SpecBoot == Init /\ [][NextBoot]_vars

InRefresh(p) == p.pc \in {"fetch", "upsert"}

\* C21: an instance comes to exist (and only then answers queries) either
\* straight after a true probe, with no fetch and no store write, or after a
\* false probe followed by a completed fetch and a completed upsert.
C21_BootstrapBeforeServing ==
    [][\A w \in Workers :
          /\ procs'[w].pc # "idle" /\ procs'[w].served => procs'[w].built
          /\ (procs'[w].pc # "idle" /\ procs'[w].built
                 /\ (procs[w].pc = "idle" \/ ~procs[w].built))
             => IF procs'[w].probe
                THEN /\ procs[w].pc = "idle"
                     /\ ~procs'[w].fetched /\ ~procs'[w].upserted
                     /\ UNCHANGED <<class_tbl, school_tbl, short_spell_info_tbl>>
                ELSE /\ procs'[w].fetched /\ procs'[w].upserted
                     /\ call'.op = "upsert" /\ call'.err = "none"]_vars

\* Both cases of C21 have happened: one instance was built by a bootstrap
\* refresh, the other on the store it left, and both have answered a query.
C21_Witness ==
    \E w1, w2 \in Workers :
        /\ procs[w1].pc = "ready" /\ ~procs[w1].probe /\ procs[w1].served
        /\ procs[w2].pc = "ready" /\ procs[w2].probe /\ procs[w2].served

\* C22: a fetch or an upsert that fails while the instance is being built
\* ends the construction: the instance never exists and never answers a query.
C22_BootstrapFailureIsFatal ==
    [][\A w \in Workers :
          /\ (procs[w].pc # "idle" /\ InRefresh(procs[w]) /\ ~procs[w].built
                 /\ call'.worker = w /\ call'.op \in {"fetch", "upsert"}
                 /\ call'.err # "none")
             => procs'[w].pc = "failed"
          /\ procs[w].pc = "failed"
             => procs'[w].pc = "failed" /\ ~procs'[w].built /\ ~procs'[w].served]_vars

\* A construction has failed in the upsert, after a fetch that succeeded, on a
\* store that another instance had filled with too few spells.
C22_Witness ==
    /\ call.op = "upsert" /\ call.err # "none"
    /\ procs[call.worker].pc = "failed" /\ procs[call.worker].fetched
    /\ \E w \in Workers : procs[w].pc = "ready" /\ ~procs[w].probe

\* C28: at no time are two registry refreshes in progress.
C28_RefreshesAreSerialized ==
    Cardinality({w \in Workers : procs[w].pc # "idle" /\ InRefresh(procs[w])}) <= 1

(***************************************************************************)
(* spell_search.py: full_info step by step                                 *)
(*                                                                         *)
(* Between the lookup, the scrape, the images and the commit of one        *)
(* full_info call other workers can run, and the process can be stopped.   *)
(* A worker's record keeps                                                 *)
(*   pc           "scrape" after a lookup that found no extended record,   *)
(*                "persist" after the scrape, "flush" when the images are  *)
(*                made and create_extended_spell_info has read the store,  *)
(*                "idle" between calls                                     *)
(*   spell_alias, scraped, tables, reads   the locals of the running call  *)
(*   last         how the worker's previous call ended                     *)
(*   after_abort  the running (or last) call followed an aborted one       *)
(***************************************************************************)
LastOf(p) == IF "last" \in DOMAIN p THEN p.last ELSE "none"

Returned(p, how) ==
    [pc |-> "idle", last |-> how,
     after_abort |-> IF "after_abort" \in DOMAIN p THEN p.after_abort
                     ELSE LastOf(p) = "aborted"]

Attached(spell_tbl, ext_tbl, spell_alias) ==
    {e \in ext_tbl : \E r \in spell_tbl : r.alias = spell_alias /\ e.short_spell_info_id = r.id}

\* full_info, line 59: get_full_spell_info; with an extended record the call
\* returns at once.
Lookup(w, spell_alias) ==
    LET got == get_full_spell_info(short_spell_info_tbl, extended_spell_info_tbl, spell_alias)
        p   == procs[w]
    IN  /\ p.pc = "idle"
        /\ IF got.extended # {}
           THEN /\ procs' = [procs EXCEPT ![w] =
                                [pc |-> "idle", last |-> "cached",
                                 after_abort |-> LastOf(p) = "aborted"]]
                /\ call' = [op |-> "full_info", worker |-> w, spell_alias |-> spell_alias,
                            err |-> "none", result |-> CHOOSE e \in got.extended : TRUE]
           ELSE /\ procs' = [procs EXCEPT ![w] =
                                [pc |-> "scrape", spell_alias |-> spell_alias,
                                 after_abort |-> LastOf(p) = "aborted"]]
                /\ call' = [op |-> "lookup", worker |-> w, spell_alias |-> spell_alias,
                            err |-> "none", result |-> NoExtendedSpellInfo]
        /\ UNCHANGED <<bot_db, class_tbl, school_tbl, short_spell_info_tbl,
                       extended_spell_info_tbl, chat_settings_tbl, files>>

\* full_info, line 62: update_spell_info; its exception ends the call.
Scrape(w, page) ==
    LET p == procs[w]
        scraped == update_spell_info(page)
    IN  /\ p.pc = "scrape"
        /\ IF scraped.err # "none"
           THEN /\ procs' = [procs EXCEPT ![w] = Returned(p, "not scraped")]
                /\ call' = [op |-> "full_info", worker |-> w, spell_alias |-> p.spell_alias,
                            err |-> scraped.err, result |-> NoExtendedSpellInfo]
           ELSE /\ procs' = [procs EXCEPT ![w] =
                                [pc |-> "persist", spell_alias |-> p.spell_alias,
                                 scraped |-> scraped, after_abort |-> p.after_abort]]
                /\ call' = [op |-> "scrape", worker |-> w, spell_alias |-> p.spell_alias,
                            err |-> "none", result |-> NoExtendedSpellInfo]
        /\ UNCHANGED <<bot_db, class_tbl, school_tbl, short_spell_info_tbl,
                       extended_spell_info_tbl, chat_settings_tbl, files>>

\* full_info, lines 64-68 and the reads of create_extended_spell_info: an
\* exception of find_or_create ends the call.
Render(w, hcti) ==
    LET p == procs[w]
        images == FindOrCreateAll(files, p.spell_alias, p.scraped.tables, hcti, <<>>)
    IN  /\ p.pc = "persist"
        /\ files' = images.files
        /\ IF images.err # "none"
           THEN /\ procs' = [procs EXCEPT ![w] = Returned(p, "aborted")]
                /\ call' = [op |-> "full_info", worker |-> w, spell_alias |-> p.spell_alias,
                            err |-> images.err, result |-> NoExtendedSpellInfo]
           ELSE /\ procs' = [procs EXCEPT ![w] =
                                [pc |-> "flush", spell_alias |-> p.spell_alias,
                                 scraped |-> p.scraped,
                                 tables |-> UpdatedTables(images.calls),
                                 reads |-> create_extended_spell_info_reads(
                                              short_spell_info_tbl, extended_spell_info_tbl,
                                              p.spell_alias),
                                 after_abort |-> p.after_abort]]
                /\ call' = [op |-> "render", worker |-> w, spell_alias |-> p.spell_alias,
                            err |-> "none", result |-> NoExtendedSpellInfo]
        /\ UNCHANGED <<bot_db, class_tbl, school_tbl, short_spell_info_tbl,
                       extended_spell_info_tbl, chat_settings_tbl>>

\* create_extended_spell_info, db.commit(), and the return of full_info.
Flush(w) ==
    LET p == procs[w]
        r == create_extended_spell_info_flush(extended_spell_info_tbl, p.reads,
                                              p.scraped.info, p.tables)
    IN  /\ p.pc = "flush"
        /\ r.err = "none" => Cardinality(extended_spell_info_tbl) < MaxExtendedRows
        /\ extended_spell_info_tbl' = r.tbl
        /\ procs' = [procs EXCEPT ![w] =
                        Returned(p, IF r.err = "none" THEN "created" ELSE "conflict")]
        /\ call' = [op |-> "full_info", worker |-> w, spell_alias |-> p.spell_alias,
                    err |-> r.err, result |-> r.result]
        /\ UNCHANGED <<bot_db, class_tbl, school_tbl, short_spell_info_tbl, chat_settings_tbl, files>>

\* The process is stopped after the scrape and before the commit.
Abort(w) ==
    LET p == procs[w]
    IN  /\ p.pc \in {"persist", "flush"}
        /\ procs' = [procs EXCEPT ![w] = Returned(p, "aborted")]
        /\ call' = [op |-> "full_info", worker |-> w, spell_alias |-> p.spell_alias,
                    err |-> "stopped", result |-> NoExtendedSpellInfo]
        /\ UNCHANGED <<bot_db, class_tbl, school_tbl, short_spell_info_tbl,
                       extended_spell_info_tbl, chat_settings_tbl, files>>

\* The detail page: unreachable, or one of two contents, or a content with a table.
FillPages ==
    {[status |-> "ConnectionError", info |-> None, tables |-> <<>>]}
    \cup {[status |-> "ok", info |-> i, tables |-> <<>>] : i \in {"v1", "v2"}}
    \cup {[status |-> "ok", info |-> "v1", tables |-> <<"<table>">>]}

\* One worker: every call returns before the next one starts.
NextFill ==
    \/ \E raw \in DetailRaws : procs[1].pc = "idle" /\ UpdateSources(raw)
    \/ Lookup(1, "fireball")
    \/ \E page \in FillPages : Scrape(1, page)
    \/ \E hcti \in HctiOutcomes : Render(1, <<hcti>>)
    \/ Flush(1)
    \/ Abort(1)

SpecFill == Init /\ [][NextFill]_vars

\* C23: a full_info call for a stored spell that ends after its scrape and
\* before its commit leaves the spell without extended record; the next call
\* scrapes again, and when it succeeds it adds exactly one record, attached to
\* the spell.
C23_AbortedCallIsRepeated ==
    [][\A w \in Workers :
          LET p == procs[w]
              q == procs'[w]
              stored(a) == \E r \in short_spell_info_tbl : r.alias = a
          IN  /\ (p.pc \in {"persist", "flush"} /\ q.pc = "idle" /\ q.last = "aborted"
                     /\ stored(p.spell_alias))
                 => Attached(short_spell_info_tbl', extended_spell_info_tbl',
                             p.spell_alias) = {}
              /\ (p.pc = "idle" /\ LastOf(p) = "aborted" /\ q # p /\ stored("fireball"))
                 => q.pc = "scrape"
              /\ (p.pc = "flush" /\ p.after_abort /\ q.last = "created"
                     /\ stored(p.spell_alias))
                 => /\ Cardinality(extended_spell_info_tbl' \ extended_spell_info_tbl) = 1
                    /\ extended_spell_info_tbl \subseteq extended_spell_info_tbl'
                    /\ Attached(short_spell_info_tbl', extended_spell_info_tbl',
                                p.spell_alias)
                          = extended_spell_info_tbl' \ extended_spell_info_tbl]_vars

\* A call for the stored spell was aborted, and the call after it has scraped
\* again and created the record.
C23_Witness ==
    /\ procs[1].pc = "idle" /\ LastOf(procs[1]) = "created" /\ procs[1].after_abort
    /\ Cardinality(Attached(short_spell_info_tbl, extended_spell_info_tbl, "fireball")) = 1
    /\ Cardinality(extended_spell_info_tbl) = 1

(***************************************************************************)
(* Extended spell info under concurrent calls                              *)
(***************************************************************************)
\* Database.create_extended_spell_info called by a caller of its own.
CreateExtendedSpellInfo(spell_alias, info) ==
    LET r == create_extended_spell_info(short_spell_info_tbl, extended_spell_info_tbl,
                                        spell_alias, info, <<>>)
    IN  /\ Cardinality(extended_spell_info_tbl) < MaxExtendedRows
        /\ extended_spell_info_tbl' = r.tbl
        /\ call' = [op |-> "create_extended_spell_info", worker |-> 0,
                    spell_alias |-> spell_alias, err |-> r.err, result |-> r.result,
                    replaced |-> {e.id : e \in Attached(short_spell_info_tbl,
                                                        extended_spell_info_tbl,
                                                        spell_alias)}]
        /\ UNCHANGED <<bot_db, class_tbl, school_tbl, short_spell_info_tbl, chat_settings_tbl,
                       files, procs>>

\* The upstream listing, before and after fireball's display name changes.
RaceRaws ==
    DetailRaws \cup {[r EXCEPT !.spells[1].Name = <<"a">>] : r \in DetailRaws}

RacePages == {page \in FillPages : page.status = "ok" /\ page.tables = <<>>}

NextRace ==
    \/ \E raw \in RaceRaws : UpdateSources(raw)
    \/ \E w \in Workers : Lookup(w, "fireball")
    \/ \E w \in Workers : Scrape(w, CHOOSE page \in RacePages : page.info = "v1")
    \/ \E w \in Workers : Render(w, <<>>)
    \/ \E w \in Workers : Flush(w)
    \/ \E page \in RacePages : CreateExtendedSpellInfo("fireball", page.info)
    \/ UpdateBookFilter(1, "coreRulebook")
    \/ ShortInfo(<<>>, 1)

SpecRace == Init /\ [][NextRace]_vars

\* C24: every short row is referenced by at most one extended row.
C24_OneExtendedRowPerSpell ==
    \A r \in short_spell_info_tbl :
        Cardinality({e \in extended_spell_info_tbl : e.short_spell_info_id = r.id}) <= 1

\* Two first-time calls for the stored spell have interleaved: both scraped,
\* one created the record, and the other's commit, prepared before the record
\* existed, was refused.
C24_Witness ==
    /\ \E w1, w2 \in Workers :
          LastOf(procs[w1]) = "created" /\ LastOf(procs[w2]) = "conflict"
    /\ call.op = "full_info" /\ call.err = "IntegrityError"
    /\ Cardinality(Attached(short_spell_info_tbl, extended_spell_info_tbl, "fireball")) = 1

\* C25 as stated: a second create_extended_spell_info for a spell that has an
\* extended record succeeds and leaves two records that reference the spell.
C25_TwoRecordsReferenceTheSpell ==
    [][(/\ call'.op = "create_extended_spell_info"
        /\ Attached(short_spell_info_tbl, extended_spell_info_tbl, call'.spell_alias) # {})
       => /\ call'.err = "none"
          /\ Cardinality(Attached(short_spell_info_tbl', extended_spell_info_tbl',
                                  call'.spell_alias)) = 2]_vars

\* C25, what holds: the second create_extended_spell_info succeeds and adds a
\* row, so the store holds both records, but only the new one references the
\* spell: the older record is kept with its reference set to NULL.
C25_SecondCreateDetachesTheFirst ==
    [][(/\ call'.op = "create_extended_spell_info"
        /\ Attached(short_spell_info_tbl, extended_spell_info_tbl, call'.spell_alias) # {})
       => LET before == Attached(short_spell_info_tbl, extended_spell_info_tbl,
                                 call'.spell_alias)
              after  == Attached(short_spell_info_tbl', extended_spell_info_tbl',
                                 call'.spell_alias)
          IN  /\ call'.err = "none"
              /\ Cardinality(extended_spell_info_tbl')
                    = Cardinality(extended_spell_info_tbl) + 1
              /\ Cardinality(after) = 1
              /\ \A e \in after : e.id \notin {x.id : x \in extended_spell_info_tbl}
              /\ \A e \in before :
                    [e EXCEPT !.short_spell_info_id = NULL] \in extended_spell_info_tbl']_vars

\* A second create_extended_spell_info for the stored spell has returned.
C25_Witness ==
    /\ call.op = "create_extended_spell_info" /\ call.err = "none" /\ call.replaced # {}
    /\ Cardinality(extended_spell_info_tbl) = 2
    /\ Cardinality(Attached(short_spell_info_tbl, extended_spell_info_tbl, "fireball")) = 1

\* An extended row that references a short row is still in the store after the
\* step, unchanged, and the short row it references has kept its alias.
KeptAsIs(e) ==
    /\ e \in extended_spell_info_tbl'
    /\ \A r \in short_spell_info_tbl :
          r.id = e.short_spell_info_id
             => \E r2 \in short_spell_info_tbl' : r2.id = r.id /\ r2.alias = r.alias

\* C26 as stated: no registry refresh, full_info, search or toggle changes,
\* removes or detaches an extended record that is attached to a spell.
C26_ExtendedInfoIsNeverTouched ==
    [][call'.op # "create_extended_spell_info"
          => \A e \in extended_spell_info_tbl :
                e.short_spell_info_id # NULL => KeptAsIs(e)]_vars

\* C26, what holds: an attached extended record is left as it is by every
\* step except a successful creation for the same spell (the commit of a
\* full_info call whose lookup came before the record existed, or
\* create_extended_spell_info called directly), and that step only detaches
\* it: its fields and tables stay, and the new record takes its place.
C26_OnlyACreationDetaches ==
    [][\A e \in extended_spell_info_tbl :
          e.short_spell_info_id # NULL
             => \/ KeptAsIs(e)
                \/ /\ call'.op \in {"full_info", "create_extended_spell_info"}
                   /\ call'.err = "none"
                   /\ e \in Attached(short_spell_info_tbl, extended_spell_info_tbl,
                                     call'.spell_alias)
                   /\ [e EXCEPT !.short_spell_info_id = NULL] \in extended_spell_info_tbl'
                   /\ Cardinality(Attached(short_spell_info_tbl', extended_spell_info_tbl',
                                           call'.spell_alias)) = 1]_vars

\* A registry refresh has upserted the alias of a spell that has an extended
\* record, under another display name than the one the record was created with.
C26_Witness ==
    /\ call.op = "update_sources" /\ call.err = "none"
    /\ Attached(short_spell_info_tbl, extended_spell_info_tbl, "fireball") # {}
    /\ \E r \in short_spell_info_tbl : r.alias = "fireball" /\ r.name = <<"a">>

(***************************************************************************)
(* spellsource.py: the requests                                            *)
(*                                                                         *)
(* site[u] is what the upstream site answers to a request for u: "ok", or  *)
(* the exception that the request, or the reading of its response, raises. *)
(***************************************************************************)
\* The requests of update_registry, in the order of the code:
\* _collect_spell_list_js_lines, then the two of _collect_extra_class_data.
RegistryRequests == <<"spell_list", "class_list", "prestige_class_list">>

\* Mutation of _collect: a failed request is issued a second time.
RECURSIVE _collect_retrying(_, _, _)
_collect_retrying(site, todo, issued) ==
    IF todo = <<>> THEN [err |-> "none", requests |-> issued]
    ELSE IF site[Head(todo)] # "ok"
         THEN [err |-> site[Head(todo)],
               requests |-> Append(Append(issued, Head(todo)), Head(todo))]
         ELSE _collect_retrying(site, Tail(todo), Append(issued, Head(todo)))

\* SourceUpdater._collect_*: one sess.get per url, no loop and no try/except;
\* the first exception ends the walk.
RECURSIVE _collect(_, _, _)
_collect(site, todo, issued) ==
    IF todo = <<>> THEN [err |-> "none", requests |-> issued]
    ELSE IF site[Head(todo)] # "ok"
         THEN [err |-> site[Head(todo)], requests |-> Append(issued, Head(todo))]
         ELSE _collect(site, Tail(todo), Append(issued, Head(todo)))

\* SpellSearch.update_sources with the requests of update_registry: the
\* extraction and the upsert run when all three requests were answered.
UpdateSourcesFrom(site, raw) ==
    LET c   == _collect(site, RegistryRequests, <<>>)
        got == IF c.err # "none" THEN [NothingExtracted EXCEPT !.err = c.err]
               ELSE update_registry(raw)
        r   == create_or_update_registry(db, PayloadOf(got))
    IN  /\ IF got.err # "none"
           THEN UNCHANGED <<bot_db, class_tbl, school_tbl, short_spell_info_tbl>>
           ELSE SetRegistry(r.db)
        /\ call' = [op |-> "update_sources", site |-> site, raw |-> raw,
                    requests |-> c.requests,
                    err |-> IF got.err # "none" THEN got.err ELSE r.err]
        /\ UNCHANGED <<bot_db, extended_spell_info_tbl, chat_settings_tbl, files, procs>>

\* SpellSearch.full_info with the request of update_spell_info, issued when no
\* extended record is stored; page is what the response parses to.
FullInfoFrom(spell_alias, site, page) ==
    LET got == get_full_spell_info(short_spell_info_tbl, extended_spell_info_tbl, spell_alias)
        c   == IF got.extended # {} THEN _collect(site, <<>>, <<>>)
               ELSE _collect(site, <<"spell_info">>, <<>>)
        r   == full_info(short_spell_info_tbl, extended_spell_info_tbl, files,
                         spell_alias, page, <<>>)
    IN  /\ page.tables = <<>>
        /\ (c.err = "none" /\ r.tbl # extended_spell_info_tbl)
              => Cardinality(extended_spell_info_tbl) < MaxExtendedRows
        /\ extended_spell_info_tbl' = IF c.err # "none" THEN extended_spell_info_tbl ELSE r.tbl
        /\ call' = [op |-> "full_info", site |-> site, spell_alias |-> spell_alias,
                    page |-> page, requests |-> c.requests,
                    err |-> IF c.err # "none" THEN c.err ELSE r.err]
        /\ UNCHANGED <<bot_db, class_tbl, school_tbl, short_spell_info_tbl, chat_settings_tbl,
                       files, procs>>

\* The site answers every request, or fails one of them; the spell list can
\* also come without its script block (IndexError).
Sites ==
    LET urls  == {"spell_list", "class_list", "prestige_class_list", "spell_info"}
        allok == [u \in urls |-> "ok"]
    IN  {allok} \cup {[allok EXCEPT ![u] = "ConnectionError"] : u \in urls}
                \cup {[allok EXCEPT !["spell_list"] = "IndexError"]}

\* The listings: fireball under one of two names, or with a school id that the
\* listing lacks.
FetchRaws == RaceRaws \cup {[r EXCEPT !.schools = <<>>] : r \in DetailRaws}

\* The detail page parses, or lacks its heading.
FetchPages ==
    {page \in FillPages : page.tables = <<>> /\ page.status = "ok"}
    \cup {[status |-> "AttributeError", info |-> None, tables |-> <<>>]}

NextFetch ==
    \/ \E site \in Sites, raw \in FetchRaws : UpdateSourcesFrom(site, raw)
    \/ \E site \in Sites, page \in FetchPages : FullInfoFrom("fireball", site, page)

SpecFetch == Init /\ [][NextFetch]_vars

\* One of the requests of the call, or the reading of what it returned, failed.
FetchFailed(c) ==
    \/ \E i \in DOMAIN c.requests : c.site[c.requests[i]] # "ok"
    \/ c.op = "update_sources" /\ RawDangling(c.raw)
    \/ c.op = "full_info" /\ c.requests # <<>> /\ c.page.status # "ok"

_insert_chat_settings_not_unique(settings_tbl, row) ==
    [tbl |-> settings_tbl \cup {row}, err |-> "none"]

\* _create_chat_settings, db.add + db.commit: chat_id is UNIQUE, the INSERT of
\* a second row for the chat raises IntegrityError.
_insert_chat_settings(settings_tbl, row) ==
    IF \E r \in settings_tbl : r.chat_id = row.chat_id
    THEN [tbl |-> settings_tbl, err |-> "IntegrityError"]
    ELSE [tbl |-> settings_tbl \cup {row}, err |-> "none"]

\* Mutation of _write_book_filter: the entry is flipped in the mapping that is
\* stored at the time of the write.
_write_book_filter_merging(settings_tbl, chat_id, read, book_alias) ==
    IF book_alias \notin DOMAIN read
    THEN [tbl |-> settings_tbl, err |-> "KeyError", result |-> read]
    ELSE [tbl |-> {IF r.chat_id = chat_id
                   THEN [r EXCEPT !.book_filter[book_alias] = ~read[book_alias]]
                   ELSE r : r \in settings_tbl},
          err |-> "none",
          result |-> [(CHOOSE r \in settings_tbl : r.chat_id = chat_id).book_filter
                         EXCEPT ![book_alias] = ~read[book_alias]]]

\* update_book_filter from `new_book_filter = chat_settings.book_filter` on: the
\* mapping held by the call with the entry flipped (KeyError for a book it
\* lacks) replaces the stored mapping of the chat's row.
_write_book_filter(settings_tbl, chat_id, read, book_alias) ==
    IF book_alias \notin DOMAIN read
    THEN [tbl |-> settings_tbl, err |-> "KeyError", result |-> read]
    ELSE LET new == [read EXCEPT ![book_alias] = ~@]
         IN  [tbl |-> {IF r.chat_id = chat_id THEN [r EXCEPT !.book_filter = new] ELSE r :
                          r \in settings_tbl},
              err |-> "none", result |-> new]

\* The worker after _get_or_create_chat_settings has returned row:
\* get_or_create_chat_settings returns, update_book_filter goes on to write.
Holding(p, row) ==
    IF p.book_alias = None THEN Idle
    ELSE [pc |-> "write", chat_id |-> p.chat_id, book_alias |-> p.book_alias,
          read |-> row.book_filter]

\* _get_or_create_chat_settings, first line: _get_chat_settings.
GetChatSettings(w, chat_id, book_alias) ==
    LET rows == _get_chat_settings(chat_settings_tbl, chat_id)
        p    == [pc |-> "create", chat_id |-> chat_id, book_alias |-> book_alias]
    IN  /\ procs[w] = Idle
        /\ procs' = [procs EXCEPT ![w] =
                        IF rows = {} THEN p ELSE Holding(p, CHOOSE r \in rows : TRUE)]
        /\ call' = [op |-> IF rows # {} /\ book_alias = None
                           THEN "get_or_create_chat_settings" ELSE "_get_chat_settings",
                    worker |-> w, chat_id |-> chat_id, err |-> "none"]
        /\ UNCHANGED <<bot_db, class_tbl, school_tbl, short_spell_info_tbl,
                       extended_spell_info_tbl, chat_settings_tbl, files>>

\* _get_or_create_chat_settings, second line: _create_chat_settings.  Its
\* IntegrityError leaves the calling operation.
CreateChatSettings(w) ==
    LET p   == procs[w]
        row == _create_chat_settings(short_spell_info_tbl, p.chat_id)
        r   == _insert_chat_settings(chat_settings_tbl, row)
    IN  /\ p.pc = "create"
        /\ chat_settings_tbl' = r.tbl
        /\ procs' = [procs EXCEPT ![w] = IF r.err # "none" THEN Idle ELSE Holding(p, row)]
        /\ call' = [op |-> IF r.err = "none" /\ p.book_alias # None
                           THEN "_create_chat_settings"
                           ELSE IF p.book_alias = None THEN "get_or_create_chat_settings"
                           ELSE "update_book_filter",
                    worker |-> w, chat_id |-> p.chat_id, err |-> r.err]
        /\ UNCHANGED <<bot_db, class_tbl, school_tbl, short_spell_info_tbl,
                       extended_spell_info_tbl, files>>

\* update_book_filter, the flip, the UPDATE and the commit.  stale: the stored
\* mapping is no longer the one the call has read.
WriteBookFilter(w) ==
    LET p == procs[w]
        r == _write_book_filter(chat_settings_tbl, p.chat_id, p.read, p.book_alias)
    IN  /\ p.pc = "write"
        /\ chat_settings_tbl' = r.tbl
        /\ procs' = [procs EXCEPT ![w] = Idle]
        /\ call' = [op |-> "update_book_filter", worker |-> w, chat_id |-> p.chat_id,
                    err |-> r.err, book_alias |-> p.book_alias, read |-> p.read,
                    stale |-> FilterOf(chat_settings_tbl, p.chat_id) # p.read]
        /\ UNCHANGED <<bot_db, class_tbl, school_tbl, short_spell_info_tbl,
                       extended_spell_info_tbl, files>>

\* The registry with the core rulebook alone, and with three rulebooks.
ChatRaceRaws == {r \in SettingsRaws : Len(r.spells) \in {1, 3}}

NextChatRace ==
    \/ \E raw \in ChatRaceRaws : UpdateSources(raw)
    \/ \E w \in Workers, chat \in SettingsChats : GetChatSettings(w, chat, None)
    \/ \E w \in Workers, b \in {"coreRulebook", "ultimateMagic"} : GetChatSettings(w, 1, b)
    \/ \E w \in Workers : CreateChatSettings(w)
    \/ \E w \in Workers : WriteBookFilter(w)

SpecChatRace == Init /\ [][NextChatRace]_vars

\* C29: the commit of an update_book_filter call stores, for the chat, the
\* whole mapping that the call had read with its one entry flipped, whatever
\* was committed in between: the stored mapping keeps its key set, and a toggle
\* committed since the read is overwritten.
C29_LastWriteWins ==
    [][(call'.op = "update_book_filter" /\ call'.err = "none")
          => /\ HasRow(chat_settings_tbl', call'.chat_id)
             /\ FilterOf(chat_settings_tbl', call'.chat_id)
                   = [call'.read EXCEPT ![call'.book_alias] = ~@]
             /\ DOMAIN FilterOf(chat_settings_tbl', call'.chat_id)
                   = DOMAIN FilterOf(chat_settings_tbl, call'.chat_id)
             /\ \A r \in chat_settings_tbl :
                   r.chat_id # call'.chat_id => r \in chat_settings_tbl']_vars

\* Two toggles of one chat have interleaved: the one committed last had read
\* the mapping before the other's commit, and the other's toggle is gone.
C29_Witness ==
    /\ call.op = "update_book_filter" /\ call.err = "none" /\ call.stale
    /\ FilterOf(chat_settings_tbl, call.chat_id)
          = [call.read EXCEPT ![call.book_alias] = ~@]

\* C30: a chat has at most one row, and a chat that has a row keeps having one.
C30_OneRowPerChatForever ==
    [][\A chat \in SettingsChats :
          /\ Cardinality(_get_chat_settings(chat_settings_tbl', chat)) <= 1
          /\ HasRow(chat_settings_tbl, chat) => HasRow(chat_settings_tbl', chat)]_vars

\* Two first accesses of one chat have interleaved: both found no row, one
\* created it and the other's INSERT was refused.
C30_Witness ==
    /\ call.op \in {"get_or_create_chat_settings", "update_book_filter"}
    /\ call.err = "IntegrityError"
    /\ Cardinality(_get_chat_settings(chat_settings_tbl, call.chat_id)) = 1

(***************************************************************************)
(* Classes and levels: the claims                                          *)
(***************************************************************************)
\* C31: iter_classes(chat) yields exactly the stored classes whose book is
\* enabled in the chat's filter, for every value of the filter.
C31_ClassesFollowFilter ==
    [][call'.op = "iter_classes"
          => /\ HasRow(chat_settings_tbl', call'.chat_id)
             /\ call'.result =
                   {c \in class_tbl :
                       /\ c.book_alias \in DOMAIN FilterOf(chat_settings_tbl', call'.chat_id)
                       /\ FilterOf(chat_settings_tbl', call'.chat_id)[c.book_alias]}]_vars

\* C32: iter_levels(class_id) yields level L exactly when the class/level
\* search for (class_id, L) without chat yields something.
C32_LevelsMatchSearch ==
    call.op = "iter_levels"
       => call.result =
             {l \in 0..3 :
                 iter_short_spell_info_by_class_level(db, chat_settings_tbl, call.class_id,
                                                      l, NoChat).found # <<>>}

\* C37: the filter of every chat that has a row has an entry for every
\* rulebook of the stored spells.
C37_FilterCoversKnownBooks ==
    \A r \in chat_settings_tbl :
        _iter_rulebooks(short_spell_info_tbl) \subseteq DOMAIN r.book_filter

(***************************************************************************)
(* The bot's own database (database/models.py): users, their rulebook     *)
(* filter lists and their saved spells, and the handlers of run.py that   *)
(* work on it.  A chat is identified by the id of the calling user.       *)
(***************************************************************************)

\* get_or_create_user: the user row of the chat; a chat seen for the first
\* time gets a user row and a chat_settings row with book_filter [1].
get_or_create_user(bdb, chat_id) ==
    LET found == {u \in bdb.user : u.chat_id = chat_id}
    IN  IF found # {}
        THEN [db |-> bdb, user |-> CHOOSE u \in found : TRUE]
        ELSE LET user == [id |-> NextRowId(bdb.user), chat_id |-> chat_id]
                 chat_settings == [id |-> NextRowId(bdb.chat_settings), user_id |-> user.id,
                                   book_filter |-> <<1>>]
             IN  [db |-> [bdb EXCEPT !.user = @ \cup {user},
                                     !.chat_settings = @ \cup {chat_settings}],
                  user |-> user]

get_chat_settings(bdb, chat_id) ==
    LET g == get_or_create_user(bdb, chat_id)
    IN  [db |-> g.db,
         chat_settings |-> CHOOSE c \in g.db.chat_settings : c.user_id = g.user.id]

update_chat_settings(bdb, chat_settings_id, book_filter) ==
    [bdb EXCEPT !.chat_settings =
        {IF c.id = chat_settings_id THEN [c EXCEPT !.book_filter = book_filter] ELSE c : c \in @}]

\* list.append, then the UPDATE of the whole list.
chat_settings_add_rulebook(bdb, chat_id, rulebook_id) ==
    LET g == get_chat_settings(bdb, chat_id)
        book_filter == Append(g.chat_settings.book_filter, rulebook_id)
    IN  [db |-> update_chat_settings(g.db, g.chat_settings.id, book_filter),
         err |-> "none", book_filter |-> book_filter]

\* list.remove drops the first occurrence and raises ValueError when there
\* is none; the user row created on the way is committed before that.
chat_settings_remove_rulebook(bdb, chat_id, rulebook_id) ==
    LET g == get_chat_settings(bdb, chat_id)
        old == g.chat_settings.book_filter
    IN  IF rulebook_id \notin Range(old)
        THEN [db |-> g.db, err |-> "ValueError", book_filter |-> old]
        ELSE LET first == CHOOSE i \in DOMAIN old :
                              /\ old[i] = rulebook_id
                              /\ \A j \in DOMAIN old : old[j] = rulebook_id => i <= j
                 book_filter == SubSeq(old, 1, first - 1) \o SubSeq(old, first + 1, Len(old))
             IN  [db |-> update_chat_settings(g.db, g.chat_settings.id, book_filter),
                  err |-> "none", book_filter |-> book_filter]

\* The INSERT with the table's UniqueConstraint("user_id", "spell_id") taken away.
create_saved_spell_not_unique(bdb, chat_id, spell_id) ==
    LET g == get_or_create_user(bdb, chat_id)
        saved_spell == [user_id |-> g.user.id, spell_id |-> spell_id]
    IN  [db |-> [g.db EXCEPT !.saved_spell = Append(@, saved_spell)], err |-> "none"]

\* create_saved_spell: INSERT and commit; uq_user_spell makes the commit of
\* a second row for the same (user, spell) raise IntegrityError.  The new
\* row gets the greatest row id, so it is the last of the list.
create_saved_spell(bdb, chat_id, spell_id) ==
    LET g == get_or_create_user(bdb, chat_id)
        saved_spell == [user_id |-> g.user.id, spell_id |-> spell_id]
    IN  IF saved_spell \in Range(g.db.saved_spell)
        THEN [db |-> g.db, err |-> "IntegrityError"]
        ELSE [db |-> [g.db EXCEPT !.saved_spell = Append(@, saved_spell)], err |-> "none"]

delete_saved_spell(bdb, chat_id, spell_id) ==
    LET g == get_or_create_user(bdb, chat_id)
        Kept(r) == ~(r.user_id = g.user.id /\ r.spell_id = spell_id)
    IN  [g.db EXCEPT !.saved_spell = SelectSeq(@, Kept)]

\* get_saved_spells: the user's rows as a list, in the order of their row ids.
get_saved_spells(bdb, chat_id) ==
    LET g == get_or_create_user(bdb, chat_id)
        OfUser(r) == r.user_id = g.user.id
    IN  [db |-> g.db, found |-> SelectSeq(g.db.saved_spell, OfUser)]

\* get_saved_spell_by_index: saved_spells[index] with Python's list indexing,
\* where -n..-1 count from the end and everything else raises IndexError.
get_saved_spell_by_index(bdb, chat_id, index) ==
    LET g == get_saved_spells(bdb, chat_id)
        n == Len(g.found)
    IN  IF index >= n \/ index < -n
        THEN [db |-> g.db, err |-> "IndexError"]
        ELSE [db |-> g.db, err |-> "none",
              saved_spell |-> g.found[(IF index < 0 THEN index + n ELSE index) + 1],
              index_max |-> n]

\* Outcomes of api.get_spell: the spell's data, an empty answer (`spells[0]`
\* raises IndexError) or a failed request (ApiError).
GetSpellOutcomes == {"spell", "IndexError", "ApiError"}

\* spellbook_read_callback: IndexError of the lookup gives the "No spell for
\* index" text; otherwise the saved spell is shown at the requested index.
SpellbookReadCallback(chat_id, index, api) ==
    LET r == get_saved_spell_by_index(bot_db, chat_id, index)
    IN  /\ bot_db' = r.db
        /\ call' = [op |-> "spellbook_read", chat_id |-> chat_id, index |-> index,
                    lookup |-> [k \in DOMAIN r \ {"db"} |-> r[k]],
                    view |-> IF r.err = "IndexError" THEN "no_spell_for_index"
                             ELSE IF api = "spell" THEN "spellbook_main" ELSE "none",
                    err |-> IF r.err = "IndexError" THEN "none"
                            ELSE IF api = "spell" THEN "none" ELSE api]
        /\ UNCHANGED <<class_tbl, school_tbl, short_spell_info_tbl, extended_spell_info_tbl,
                       chat_settings_tbl, files, procs>>

\* spellbook_create_callback: IntegrityError is answered with "already in the
\* book"; after a successful insert the spell is fetched and "added" answered.
SpellbookCreateCallback(chat_id, spell_id, api) ==
    LET c == create_saved_spell(bot_db, chat_id, spell_id)
    IN  /\ bot_db' = c.db
        /\ call' = [op |-> "spellbook_create", chat_id |-> chat_id, spell_id |-> spell_id,
                    create_err |-> c.err,
                    answer |-> IF c.err = "IntegrityError" THEN "already_in_book"
                               ELSE IF api = "spell" THEN "added" ELSE "none",
                    err |-> IF c.err = "IntegrityError" \/ api = "spell" THEN "none" ELSE api]
        /\ UNCHANGED <<class_tbl, school_tbl, short_spell_info_tbl, extended_spell_info_tbl,
                       chat_settings_tbl, files, procs>>

\* spellbook_delete_callback: delete, then look up index - 1; an IndexError of
\* the lookup or of api.get_spell gives the empty-spellbook view.
SpellbookDeleteCallback(chat_id, spell_id, index, api) ==
    LET deleted == delete_saved_spell(bot_db, chat_id, spell_id)
        updated_index == index - 1
        r == get_saved_spell_by_index(deleted, chat_id, updated_index)
        raised == IF r.err = "IndexError" THEN "IndexError"
                  ELSE IF api = "spell" THEN "none" ELSE api
    IN  /\ bot_db' = r.db
        /\ call' = [op |-> "spellbook_delete", chat_id |-> chat_id, spell_id |-> spell_id,
                    index |-> index, lookup |-> [k \in DOMAIN r \ {"db"} |-> r[k]],
                    view |-> CASE raised = "none" -> "spellbook_main"
                               [] raised = "IndexError" -> "spellbook_empty"
                               [] OTHER -> "none",
                    shown_index |-> updated_index,
                    get_spell |-> IF r.err = "IndexError" THEN "not_called" ELSE api,
                    err |-> IF raised = "ApiError" THEN "ApiError" ELSE "none"]
        /\ UNCHANGED <<class_tbl, school_tbl, short_spell_info_tbl, extended_spell_info_tbl,
                       chat_settings_tbl, files, procs>>

\* chat_settings_add_rulebook_callback / chat_settings_remove_rulebook_callback:
\* the database call, then the keyboard built from the returned list.
ChatSettingsAddRulebookCallback(chat_id, rulebook_id) ==
    LET a == chat_settings_add_rulebook(bot_db, chat_id, rulebook_id)
    IN  /\ bot_db' = a.db
        /\ call' = [op |-> "chat_settings_add_rulebook", chat_id |-> chat_id,
                    rulebook_id |-> rulebook_id, err |-> a.err, user_rulebooks |-> a.book_filter]
        /\ UNCHANGED <<class_tbl, school_tbl, short_spell_info_tbl, extended_spell_info_tbl,
                       chat_settings_tbl, files, procs>>

ChatSettingsRemoveRulebookCallback(chat_id, rulebook_id) ==
    LET d == chat_settings_remove_rulebook(bot_db, chat_id, rulebook_id)
    IN  /\ bot_db' = d.db
        /\ call' = [op |-> "chat_settings_remove_rulebook", chat_id |-> chat_id,
                    rulebook_id |-> rulebook_id, err |-> d.err, user_rulebooks |-> d.book_filter]
        /\ UNCHANGED <<class_tbl, school_tbl, short_spell_info_tbl, extended_spell_info_tbl,
                       chat_settings_tbl, files, procs>>

\* Bounds of the spellbook specification: rows of saved_spell and entries
\* of one filter list.
MaxSaved == 3

MaxFilterLen == 3

BookChats == {1, 2}

BookSpellIds == {1, 2}

BookRulebookIds == {1, 2}

NextBook ==
    \/ \E chat \in BookChats, index \in (0 - MaxSaved)..MaxSaved, api \in GetSpellOutcomes :
          SpellbookReadCallback(chat, index, api)
    \/ \E chat \in BookChats, spell_id \in BookSpellIds, api \in GetSpellOutcomes :
          /\ Len(bot_db.saved_spell) < MaxSaved
          /\ SpellbookCreateCallback(chat, spell_id, api)
    \/ \E chat \in BookChats, spell_id \in BookSpellIds, index \in 0..MaxSaved,
          api \in GetSpellOutcomes :
          SpellbookDeleteCallback(chat, spell_id, index, api)

SpecBook == Init /\ [][NextBook]_vars

NextRulebooks ==
    \/ \E chat \in BookChats, rulebook_id \in BookRulebookIds :
          /\ Len(get_chat_settings(bot_db, chat).chat_settings.book_filter) < MaxFilterLen
          /\ ChatSettingsAddRulebookCallback(chat, rulebook_id)
    \/ \E chat \in BookChats, rulebook_id \in BookRulebookIds :
          ChatSettingsRemoveRulebookCallback(chat, rulebook_id)

SpecRulebooks == Init /\ [][NextRulebooks]_vars

\* C33: the lookup of spellbook_read_callback returns the index-th saved spell
\* of the user and the count n when 0 <= index < n, and fails with IndexError
\* for every other index, the negative ones included.
C33_IndexLookup ==
    [][call'.op = "spellbook_read"
          => LET saved == get_saved_spells(bot_db, call'.chat_id).found
                 n == Len(saved)
             IN  IF 0 <= call'.index /\ call'.index < n
                 THEN /\ call'.lookup.err = "none"
                      /\ call'.lookup.saved_spell = saved[call'.index + 1]
                      /\ call'.lookup.index_max = n
                 ELSE call'.lookup.err = "IndexError"]_vars

\* The user of the chat has a saved_spell row for the spell.
IsSaved(bdb, chat_id, spell_id) ==
    \E u \in bdb.user :
        /\ u.chat_id = chat_id
        /\ [user_id |-> u.id, spell_id |-> spell_id] \in Range(bdb.saved_spell)

\* C34: no (user, spell id) pair has two saved_spell rows; creating a pair
\* that is already saved raises IntegrityError, leaves the rows as they were
\* and is answered with "already in the book", never with "added".
C34_SavedOnce ==
    [][/\ \A i, j \in DOMAIN bot_db'.saved_spell :
              i # j => bot_db'.saved_spell[i] # bot_db'.saved_spell[j]
       /\ (call'.op = "spellbook_create" /\ IsSaved(bot_db, call'.chat_id, call'.spell_id))
             => /\ call'.create_err = "IntegrityError"
                /\ bot_db'.saved_spell = bot_db.saved_spell
                /\ call'.answer = "already_in_book"]_vars

\* A duplicate creation was refused while another user has the same spell saved.
C34_Witness ==
    /\ call.op = "spellbook_create"
    /\ call.create_err = "IntegrityError"
    /\ call.answer = "already_in_book"
    /\ \E i, j \in DOMAIN bot_db.saved_spell :
          /\ bot_db.saved_spell[i].spell_id = call.spell_id
          /\ bot_db.saved_spell[j].spell_id = call.spell_id
          /\ bot_db.saved_spell[i].user_id # bot_db.saved_spell[j].user_id

\* The keyboard the deletion comes from: the spell is the user's saved spell
\* at the index.
ShownAt(bdb, chat_id, index, spell_id) ==
    LET saved == get_saved_spells(bdb, chat_id).found
    IN  /\ 0 <= index /\ index < Len(saved)
        /\ saved[index + 1].spell_id = spell_id

\* C35: after spellbook_delete_callback has deleted the spell shown at index
\* i (and the spell service answered), the empty-spellbook view is shown
\* exactly when the user has no saved spell left; otherwise one of the saved
\* spells left is shown, at a displayed index within 0..index_max-1.
C35_ViewAfterDelete ==
    [][(/\ call'.op = "spellbook_delete"
        /\ ShownAt(bot_db, call'.chat_id, call'.index, call'.spell_id)
        /\ call'.get_spell \in {"not_called", "spell"})
          => LET left == get_saved_spells(bot_db', call'.chat_id).found
             IN  IF left = <<>>
                 THEN call'.view = "spellbook_empty"
                 ELSE /\ call'.view = "spellbook_main"
                      /\ call'.lookup.saved_spell \in Range(left)
                      /\ call'.lookup.index_max = Len(left)
                      /\ 0 <= call'.shown_index
                      /\ call'.shown_index < call'.lookup.index_max]_vars

\* C36: after every add and remove of a rulebook, no filter list holds a
\* rulebook id twice, and a remove of r that returned leaves r out of the
\* chat's filter.
C36_FilterHoldsEachBookOnce ==
    [][/\ \A c \in bot_db'.chat_settings :
              \A i, j \in DOMAIN c.book_filter : i # j => c.book_filter[i] # c.book_filter[j]
       /\ (call'.op = "chat_settings_remove_rulebook" /\ call'.err = "none")
             => call'.rulebook_id
                   \notin Range(get_chat_settings(bot_db', call'.chat_id).chat_settings.book_filter)]_vars
====
